---- MODULE Spec2Model ----
(***************************************************************************)
(* The alert engine of the FX dashboard: buildAlerts of lib/alerts.ts      *)
(* (src/lib/fxApi.ts, lines 65-346) and the cooldown ledger it is given    *)
(* and returns.                                                            *)
(*                                                                         *)
(* Numbers.  Rates are integers.  Every strictly positive rate of the      *)
(* model is a power of two, so that a log-return Math.log(b / a) is the    *)
(* integer Log2(b) - Log2(a) in units of ln 2.  A mean, a standard         *)
(* deviation and a ratio of two of them are irrational in general; the     *)
(* code only ever compares them with thresholds, and each comparison is    *)
(* stated here on the squared, cross-multiplied integers (exact            *)
(* arithmetic; floating-point rounding is not modelled).                   *)
(*                                                                         *)
(* Time.  The clock and the ledger's timestamps are integers in            *)
(* milliseconds, as Date.now(), counted from an arbitrary origin.  The     *)
(* instant of an observation is counted in hours from another origin; the  *)
(* code never compares the two.                                            *)
(***************************************************************************)
EXTENDS Integers, Sequences, FiniteSets, TLC

VARIABLES now, firedAt, pack, call, loads, tabs, calc, job

vars == <<now, firedAt, pack, call, loads, tabs, calc, job>>

----------------------------------------------------------------------------
(* Program constants                                                       *)

HourMs == 3600000
minNeeded == 40
Window90 == 90
Window30 == 30
Lookback20 == 20
VolFloor == 10
CooldownCritical == 12
CooldownAlert == 24
CooldownWatch == 24
CooldownInfo == 6

COOLDOWN_HOURS ==
    [CRITICAL |-> CooldownCritical, ALERT |-> CooldownAlert,
     WATCH |-> CooldownWatch, INFO |-> CooldownInfo]

RuleKinds ==
    {"move:rare", "move:notable", "move:watch", "vol:jump", "vol:rising",
     "range:break20"}

SystemKinds == {"system:all_clear", "system:waiting_for_history"}

SeverityOf ==
    [k \in RuleKinds \cup SystemKinds |->
        CASE k = "move:rare" -> "CRITICAL"
          [] k = "move:notable" -> "ALERT"
          [] k = "move:watch" -> "WATCH"
          [] k = "vol:jump" -> "ALERT"
          [] k = "vol:rising" -> "WATCH"
          [] k = "range:break20" -> "ALERT"
          [] OTHER -> "INFO"]

----------------------------------------------------------------------------
(* JavaScript values                                                       *)

\* A number: finite with value v, or NaN / Infinity (fin = FALSE).
Num(v) == [fin |-> TRUE, v |-> v]
NaN == [fin |-> FALSE, v |-> 0]

\* The value null where a number is expected (number | null).
Null == [null |-> TRUE, v |-> 0]
Some(v) == [null |-> FALSE, v |-> v]

\* F(e), with e evaluated once, before F is entered.
With(e, F(_)) == CHOOSE r \in {F(v) : v \in {e}} : TRUE

Digits == {"0", "1", "2", "4", "8"}
DigitVal == [c \in Digits |-> CASE c = "0" -> 0 [] c = "1" -> 1 [] c = "2" -> 2
                                [] c = "4" -> 4 [] OTHER -> 8]

RECURSIVE DigitsValue(_)
\* The value of a non-empty run of decimal digits.
DigitsValue(cs) ==
    IF Len(cs) = 0 THEN 0
    ELSE 10 * DigitsValue(SubSeq(cs, 1, Len(cs) - 1)) + DigitVal[cs[Len(cs)]]

IsDigits(cs) == \A i \in 1..Len(cs) : cs[i] \in Digits

\* Number(cleaned) for a string that holds only the characters 0-9 . -
\* The empty string is 0; an optional minus sign and digits are the integer;
\* anything else ("-", "1-2", "1.2.3", ".") is NaN.  One "." after the digits
\* is accepted when no digit or only zeros follow it (the model has no
\* fractions).
NumberOfCleaned(cs) ==
    LET neg == Len(cs) > 0 /\ cs[1] = "-"
        body == IF neg THEN SubSeq(cs, 2, Len(cs)) ELSE cs
        dots == {i \in 1..Len(body) : body[i] = "."}
        int == IF dots = {} THEN body
               ELSE SubSeq(body, 1, (CHOOSE i \in dots : TRUE) - 1)
        frac == IF dots = {} THEN <<>>
                ELSE SubSeq(body, (CHOOSE i \in dots : TRUE) + 1, Len(body))
    IN  IF Len(cs) = 0 THEN Num(0)
        ELSE IF Cardinality(dots) > 1 \/ Len(int) = 0 \/ ~IsDigits(int)
                \/ ~(\A i \in 1..Len(frac) : frac[i] = "0")
             THEN NaN
        ELSE Num(IF neg THEN 0 - DigitsValue(int) ELSE DigitsValue(int))

KeepChar(c) == c \in Digits \cup {".", "-"}

\* safeNum(x): a finite number is itself; a string is stripped of every
\* character outside [0-9.-] and handed to Number(); anything else is null.
safeNum(x) ==
    IF x.type = "number" THEN (IF x.fin THEN Some(x.v) ELSE Null)
    ELSE IF x.type # "string" THEN Null
    ELSE LET n == NumberOfCleaned(SelectSeq(x.s, KeepChar))
         IN  IF n.fin THEN Some(n.v) ELSE Null

\* new Date(p.date).getTime(): the instant of a parseable date, else NaN.
DateGetTime(d) == IF d.ok THEN Num(d.t) ELSE NaN

\* isoDay(new Date(t)): the calendar day of an observation's instant.
isoDay(t) == t \div 24

----------------------------------------------------------------------------
(* Statistics                                                              *)

RECURSIVE SumRange(_, _, _)
\* xs[lo] + ... + xs[hi], by halves.
SumRange(xs, lo, hi) ==
    IF lo > hi THEN 0
    ELSE IF lo = hi THEN xs[lo]
    ELSE LET mid == (lo + hi) \div 2
         IN  SumRange(xs, lo, mid) + SumRange(xs, mid + 1, hi)

Sum(xs) == SumRange(xs, 1, Len(xs))

Squares(xs) == [i \in 1..Len(xs) |-> xs[i] * xs[i]]

\* xs.slice(-k): the last k elements (all of them when k >= xs.length).
Last(xs, k) ==
    IF k >= Len(xs) THEN xs ELSE SubSeq(xs, Len(xs) - k + 1, Len(xs))

\* mean(xs) = Sum(xs) / Len(xs), 0 for the empty list.  The model keeps the
\* numerator; every use below multiplies through by Len(xs).

\* std(xs): 0 when xs.length < 2, else sqrt(mean((x - m)^2)), the population
\* standard deviation (the squared deviations are divided by n).  The value
\* kept is n^2 * std(xs)^2 = n * sum(x^2) - (sum x)^2.
stdScaledSq(xs) ==
    IF Len(xs) < 2 THEN 0
    ELSE With(<<>> \o Squares(xs), LAMBDA sq : Len(xs) * Sum(sq)) - Sum(xs) * Sum(xs)

Log2(x) == CHOOSE e \in 0..6 : 2 ^ e = x

\* The loop of rollingVolAnnualized over the pairs (xs[i-1], xs[i]): a pair
\* with a price <= 0 is skipped, every other pair pushes Math.log(b / a)
\* (in units of ln 2).
LogReturns(xs) ==
    LET Valid(i) == ~(xs[i - 1] <= 0 \/ xs[i] <= 0)
    IN  With(SelectSeq([i \in 1..(Len(xs) - 1) |-> i + 1], Valid), LAMBDA pairs :
            <<>> \o [k \in 1..Len(pairs) |-> Log2(xs[pairs[k]]) - Log2(xs[pairs[k] - 1])])

Max(a, b) == IF a >= b THEN a ELSE b

RECURSIVE Gcd(_, _)
Gcd(a, b) == IF b = 0 THEN a ELSE Gcd(b, a % b)

\* The fraction a / b (a >= 0, b > 0) in lowest terms.
Lowest(a, b) == <<a \div Gcd(a, b), b \div Gcd(a, b)>>

\* rollingVolAnnualized(rates, window): null, or std(rets) * sqrt(252), kept
\* as the pair (n, q) with n = rets.length and q = n^2 * std(rets)^2, so
\* that the volatility is (sqrt(q) / n) * ln 2 * sqrt(252).
rollingVolAnnualized(rates, window) ==
    IF Len(rates) < window + 1 THEN [null |-> TRUE, n |-> 0, q |-> 0]
    ELSE With(Last(rates, window + 1), LAMBDA xs :
         With(LogReturns(xs), LAMBDA rets :
             IF Len(rets) < Max(VolFloor, window - 2)
             THEN [null |-> TRUE, n |-> 0, q |-> 0]
             ELSE [null |-> FALSE, n |-> Len(rets), q |-> stdScaledSq(rets)]))

\* vol30 / Math.max(1e-9, vol90) >= num / den, for volatilities that are not
\* null.  A non-zero volatility of the model is at least
\* ln 2 * sqrt(252) / 90 > 0.1, so Math.max returns vol90 unless vol90 = 0,
\* and then the ratio is vol30 * 1e9: 0 when vol30 = 0, above every
\* threshold otherwise.
RatioAtLeast(v30, v90, num, den) ==
    IF v90.q = 0 THEN v30.q > 0
    ELSE (den * den) * v30.q * (v90.n * v90.n)
            >= (num * num) * v90.q * (v30.n * v30.n)

SeqMin(xs) == CHOOSE m \in {xs[i] : i \in 1..Len(xs)} :
                  \A i \in 1..Len(xs) : m <= xs[i]
SeqMax(xs) == CHOOSE m \in {xs[i] : i \in 1..Len(xs)} :
                  \A i \in 1..Len(xs) : m >= xs[i]

\* rangeBreak with latest >= hi and latest <= lo: a latest rate on the edge
\* of the range breaks it.
rangeBreakOrEqual(rates, lookback) ==
    IF Len(rates) < lookback THEN "null"
    ELSE With(SubSeq(rates, Len(rates) - lookback + 1, Len(rates) - 1), LAMBDA prev :
             LET latest == rates[Len(rates)]
                 lo == SeqMin(prev)
                 hi == SeqMax(prev)
             IN  IF latest >= hi THEN "UP"
                 ELSE IF latest <= lo THEN "DOWN"
                 ELSE "null")

\* rangeBreak(rates, lookback): null when fewer than lookback rates; else the
\* latest rate against the lookback - 1 rates before it.
rangeBreak(rates, lookback) ==
    IF Len(rates) < lookback THEN "null"
    ELSE With(SubSeq(rates, Len(rates) - lookback + 1, Len(rates) - 1), LAMBDA prev :
             LET latest == rates[Len(rates)]
                 lo == SeqMin(prev)
                 hi == SeqMax(prev)
             IN  IF latest > hi THEN "UP"
                 ELSE IF latest < lo THEN "DOWN"
                 ELSE "null")

----------------------------------------------------------------------------
(* buildAlerts: the normalisation of the input (lines 157-174)             *)

\* The map of lines 158-162 evaluates new Date(p.date).toISOString() for
\* every record, before the filter; toISOString throws a RangeError on an
\* invalid date.
MapThrows(points) ==
    \E i \in 1..Len(points) : ~DateGetTime(points[i].date).fin

\* The record the map makes of a point (dateISO is not used again but for
\* latest.dateISO, the same instant as t).
ParsePoint(p) ==
    [t |-> DateGetTime(p.date), rate |-> safeNum(p.rate)]

\* The list left in the order of the input (the sort forgotten).
SortByTNot(xs) == xs

\* .sort((a, b) => a.t - b.t): ascending by t and stable (elements of equal
\* t keep their order).  The element of index i goes to the place that
\* counts the elements ordered before it.
SortByT(xs) ==
    LET Before(j, i) == xs[j].t < xs[i].t \/ (xs[j].t = xs[i].t /\ j < i)
    IN  With(<<>> \o [i \in 1..Len(xs) |->
                        1 + Cardinality({j \in 1..Len(xs) : Before(j, i)})],
             LAMBDA place :
                 [k \in 1..Len(xs) |-> xs[CHOOSE i \in 1..Len(xs) : place[i] = k]])

FiniteT(p) == p.t.fin

\* points.map(...).filter((p) => Number.isFinite(p.t)).sort(...)
parsedOf(points) ==
    With(SelectSeq([i \in 1..Len(points) |-> ParsePoint(points[i])], FiniteT),
         LAMBDA kept :
    With(<<>> \o [i \in 1..Len(kept) |-> [t |-> kept[i].t.v, rate |-> kept[i].rate]],
         LAMBDA timed : <<>> \o SortByT(timed)))

HasRate(p) == ~p.rate.null

\* parsed.filter((p) => p.rate !== null)
numericOf(parsed) ==
    With(SelectSeq(parsed, HasRate), LAMBDA kept :
         <<>> \o [i \in 1..Len(kept) |-> [t |-> kept[i].t, rate |-> kept[i].rate.v]])

\* The readiness threshold with numericPoints > minNeeded.
statusOfAbove(numericPoints) == IF numericPoints > minNeeded THEN "LIVE" ELSE "WAITING"

\* const status = numericPoints >= minNeeded ? "LIVE" : "WAITING"
statusOf(numericPoints) == IF numericPoints >= minNeeded THEN "LIVE" ELSE "WAITING"

----------------------------------------------------------------------------
(* buildAlerts: the three rules (lines 203-329)                            *)

\* z with the first rate of the list in the place of the latest.
zScore90OfFirst(rates) ==
    With(Last(rates, Window90), LAMBDA rates90 :
    With(stdScaledSq(rates90), LAMBDA q :
        IF q > 0
        THEN [null |-> FALSE,
              num |-> Len(rates90) * rates[1] - Sum(rates90),
              den2 |-> q]
        ELSE [null |-> TRUE, num |-> 0, den2 |-> 0]))

\* z = s90 > 0 ? (latestRate - m90) / s90 : null, kept as the pair
\* (num, den2) with z = num / sqrt(den2): num = n * (latest - mean) and
\* den2 = n^2 * std^2 over the last min(90, n) rates.
zScore90Of(rates) ==
    With(Last(rates, Window90), LAMBDA rates90 :
    With(stdScaledSq(rates90), LAMBDA q :
        IF q > 0
        THEN [null |-> FALSE,
              num |-> Len(rates90) * rates[Len(rates)] - Sum(rates90),
              den2 |-> q]
        ELSE [null |-> TRUE, num |-> 0, den2 |-> 0]))

\* The tiers with Math.abs(z) > a / b.
AbsZAbove(z, a, b) == (b * b) * (z.num * z.num) > (a * a) * z.den2

\* Math.abs(z) >= a / b.
AbsZAtLeast(z, a, b) == (b * b) * (z.num * z.num) >= (a * a) * z.den2

\* The alert the deviation rule hands to fire(): the first tier that matches.
moveRule(z) ==
    IF z.null THEN "none"
    ELSE IF AbsZAtLeast(z, 3, 1) THEN "move:rare"
    ELSE IF AbsZAtLeast(z, 2, 1) THEN "move:notable"
    ELSE IF AbsZAtLeast(z, 3, 2) THEN "move:watch"
    ELSE "none"

\* The volatility rule with the two thresholds exchanged: the first test is
\* on 1.3, so the branch of 1.6 is never reached.
volRuleExchanged(rates) ==
    With(rollingVolAnnualized(rates, Window30), LAMBDA vol30 :
    With(rollingVolAnnualized(rates, Window90), LAMBDA vol90 :
        IF vol30.null \/ vol90.null THEN "none"
        ELSE IF RatioAtLeast(vol30, vol90, 13, 10) THEN "vol:rising"
        ELSE IF RatioAtLeast(vol30, vol90, 8, 5) THEN "vol:jump"
        ELSE "none"))

\* The alert the volatility rule hands to fire().
volRule(rates) ==
    With(rollingVolAnnualized(rates, Window30), LAMBDA vol30 :
    With(rollingVolAnnualized(rates, Window90), LAMBDA vol90 :
        IF vol30.null \/ vol90.null THEN "none"
        ELSE IF RatioAtLeast(vol30, vol90, 8, 5) THEN "vol:jump"
        ELSE IF RatioAtLeast(vol30, vol90, 13, 10) THEN "vol:rising"
        ELSE "none"))

\* The alert the range rule hands to fire().
rangeRule(rates) ==
    IF rangeBreak(rates, Lookback20) # "null" THEN "range:break20" ELSE "none"

----------------------------------------------------------------------------
(* buildAlerts: what the input alone decides (lines 157-224, and the       *)
(* conditions of the rules of lines 249-329)                               *)

NoAnalysis ==
    [threw |-> TRUE, totalPoints |-> 0, numericPoints |-> 0, status |-> "WAITING",
     fromISO |-> -1, toISO |-> -1, numeric |-> <<>>,
     z |-> [null |-> TRUE, num |-> 0, den2 |-> 0], series90 |-> <<>>,
     vol30 |-> [null |-> TRUE, n |-> 0, q |-> 0],
     vol90 |-> [null |-> TRUE, n |-> 0, q |-> 0],
     rules |-> <<>>]

\* What lines 166-224 and the rules make of the sorted points.
Facts(parsed, numeric, rates) ==
    LET status == statusOf(Len(numeric))
        live == status = "LIVE"
        n90 == IF Len(rates) < Window90 THEN Len(rates) ELSE Window90
    IN  [threw |-> FALSE,
         totalPoints |-> Len(parsed),
         numericPoints |-> Len(numeric),
         status |-> status,
         fromISO |-> IF Len(parsed) > 0 THEN isoDay(parsed[1].t) ELSE -1,
         toISO |-> IF Len(parsed) > 0 THEN isoDay(parsed[Len(parsed)].t) ELSE -1,
         numeric |-> numeric,
         z |-> IF live THEN zScore90Of(rates) ELSE NoAnalysis.z,
         series90 |-> IF live
                      THEN With(Last(numeric, n90), LAMBDA last90 :
                               <<>> \o [i \in 1..n90 |->
                                   [date |-> isoDay(last90[i].t), rate |-> last90[i].rate]])
                      ELSE <<>>,
         vol30 |-> IF live THEN rollingVolAnnualized(rates, Window30)
                   ELSE NoAnalysis.vol30,
         vol90 |-> IF live THEN rollingVolAnnualized(rates, Window90)
                   ELSE NoAnalysis.vol90,
         rules |-> IF live
                   THEN <<moveRule(zScore90Of(rates)), volRule(rates), rangeRule(rates)>>
                   ELSE <<>>]

ratesOf(numeric) == <<>> \o [i \in 1..Len(numeric) |-> numeric[i].rate]

Analyse(points) ==
    IF MapThrows(points) THEN NoAnalysis
    ELSE With(parsedOf(points), LAMBDA parsed :
         With(numericOf(parsed), LAMBDA numeric :
         With(ratesOf(numeric), LAMBDA rates :
         Facts(parsed, numeric, rates))))

----------------------------------------------------------------------------
(* buildAlerts: the cooldown gate and the result (lines 176-201, 226-346)  *)

\* canFire without the cooldown: every alert passes.
canFireAlways(id, sev, ledger, clock) == TRUE

\* canFire that lets a kind fire once only: an entry of the ledger never
\* expires.
canFireOnce(id, sev, ledger, clock) == id \notin DOMAIN ledger

\* canFire reading the ledger the caller keeps (a global), not the ledger
\* passed in.
canFireGlobal(id, sev, ledger, clock) ==
    IF id \notin DOMAIN firedAt THEN TRUE
    ELSE clock - firedAt[id] >= COOLDOWN_HOURS[sev] * HourMs

\* canFire with one cooldown for a whole rule: an entry of any tier of the
\* rule (move:*, vol:*) withholds every tier of it.
canFireFamily(id, sev, ledger, clock) ==
    LET Family(k) ==
            CASE k \in {"move:rare", "move:notable", "move:watch"} -> 1
              [] k \in {"vol:jump", "vol:rising"} -> 2
              [] k = "range:break20" -> 3
              [] OTHER -> 4
    IN  \A k \in DOMAIN ledger :
            Family(k) = Family(id) => clock - ledger[k] >= COOLDOWN_HOURS[sev] * HourMs

\* canFire with the subtraction the other way round: the age of an entry of
\* the past is negative and never reaches the cooldown.
canFireReversed(id, sev, ledger, clock) ==
    IF id \notin DOMAIN ledger THEN TRUE
    ELSE ledger[id] - clock >= COOLDOWN_HOURS[sev] * HourMs

\* canFire with the comparison hours > COOLDOWN_HOURS[sev].
canFireStrict(id, sev, ledger, clock) ==
    IF id \notin DOMAIN ledger THEN TRUE
    ELSE clock - ledger[id] > COOLDOWN_HOURS[sev] * HourMs

\* canFire(id, sev), with clock the value Date.now() returns in it.
canFire(id, sev, ledger, clock) ==
    IF id \notin DOMAIN ledger THEN TRUE
    ELSE clock - ledger[id] >= COOLDOWN_HOURS[sev] * HourMs

\* firedAt = { [alert.id]: nowISO }: a fresh ledger, the other entries lost.
PutOnly(ledger, id, t) == [k \in {id} |-> t]

\* firedAt[alert.id] = nowISO
Put(ledger, id, t) ==
    [k \in DOMAIN ledger \cup {id} |-> IF k = id THEN t ELSE ledger[k]]

\* The keys of the meta object of an alert (the values are roundings of
\* the rule's figures for display, and are not modelled).
MetaOf(id) ==
    CASE id \in {"move:rare", "move:notable", "move:watch"} -> {"zScore90"}
      [] id \in {"vol:jump", "vol:rising"} -> {"ratio"}
      [] id = "range:break20" -> {"ref", "latest"}
      [] id = "system:waiting_for_history" -> {"minNeeded"}
      [] OTHER -> {}

\* fire(alert), on the alerts and the ledger so far.
fire(acc, id, nowISO, clock) ==
    IF ~canFire(id, SeverityOf[id], acc.firedAt, clock) THEN acc
    ELSE [alerts |-> Append(acc.alerts,
                        [id |-> id, severity |-> SeverityOf[id],
                         timestampISO |-> nowISO, meta |-> MetaOf(id)]),
          firedAt |-> Put(acc.firedAt, id, nowISO)]

RECURSIVE fireAll(_, _, _, _, _)
\* The calls of fire() in the order of the rules; gate[i] is the value
\* Date.now() returns to the i-th rule's call.
fireAll(acc, rules, i, nowISO, gate) ==
    IF i > Len(rules) THEN acc
    ELSE fireAll(IF rules[i] = "none" THEN acc
                 ELSE fire(acc, rules[i], nowISO, gate[i]),
                 rules, i + 1, nowISO, gate)

SystemAlert(id, nowISO) ==
    [id |-> id, severity |-> "INFO", timestampISO |-> nowISO, meta |-> MetaOf(id)]

\* packOf with the all-clear record handed to fire(), as the rules' alerts
\* are: gated by the cooldown and written to the ledger.
packOfGated(a, ledger, nowISO, gate) ==
    LET fired == fireAll([alerts |-> <<>>, firedAt |-> ledger], a.rules, 1, nowISO, gate)
        out == IF Len(fired.alerts) = 0
               THEN fire(fired, "system:all_clear", nowISO, gate[3])
               ELSE fired
    IN  IF a.threw \/ a.status = "WAITING"
        THEN [threw |-> a.threw,
              alerts |-> IF a.threw THEN <<>>
                         ELSE <<SystemAlert("system:waiting_for_history", nowISO)>>,
              firedAt |-> ledger, status |-> "WAITING",
              totalPoints |-> a.totalPoints, numericPoints |-> a.numericPoints,
              fromISO |-> a.fromISO, toISO |-> a.toISO,
              zScore90 |-> NoAnalysis.z, series90 |-> <<>>]
        ELSE [threw |-> FALSE, alerts |-> out.alerts, firedAt |-> out.firedAt,
              status |-> a.status,
              totalPoints |-> a.totalPoints, numericPoints |-> a.numericPoints,
              fromISO |-> a.fromISO, toISO |-> a.toISO,
              zScore90 |-> a.z, series90 |-> a.series90]

\* packOf with the all-clear record pushed whatever the rules fired.
packOfAllClearAlways(a, ledger, nowISO, gate) ==
    LET fired == fireAll([alerts |-> <<>>, firedAt |-> ledger], a.rules, 1, nowISO, gate)
    IN  IF a.threw
        THEN [threw |-> TRUE, alerts |-> <<>>, firedAt |-> ledger, status |-> "WAITING",
              totalPoints |-> 0, numericPoints |-> 0, fromISO |-> -1, toISO |-> -1,
              zScore90 |-> NoAnalysis.z, series90 |-> <<>>]
        ELSE IF a.status = "WAITING"
        THEN [threw |-> FALSE,
              alerts |-> <<SystemAlert("system:waiting_for_history", nowISO)>>,
              firedAt |-> ledger, status |-> a.status,
              totalPoints |-> a.totalPoints, numericPoints |-> a.numericPoints,
              fromISO |-> a.fromISO, toISO |-> a.toISO,
              zScore90 |-> NoAnalysis.z, series90 |-> <<>>]
        ELSE [threw |-> FALSE,
              alerts |-> Append(fired.alerts, SystemAlert("system:all_clear", nowISO)),
              firedAt |-> fired.firedAt, status |-> a.status,
              totalPoints |-> a.totalPoints, numericPoints |-> a.numericPoints,
              fromISO |-> a.fromISO, toISO |-> a.toISO,
              zScore90 |-> a.z,
              series90 |-> a.series90]

\* The AlertPack of an analysed input, a ledger, the instant nowISO read on
\* entry and the later clock readings gate.
packOf(a, ledger, nowISO, gate) ==
    LET fired == fireAll([alerts |-> <<>>, firedAt |-> ledger], a.rules, 1, nowISO, gate)
    IN  IF a.threw
        THEN [threw |-> TRUE, alerts |-> <<>>, firedAt |-> ledger, status |-> "WAITING",
              totalPoints |-> 0, numericPoints |-> 0, fromISO |-> -1, toISO |-> -1,
              zScore90 |-> NoAnalysis.z, series90 |-> <<>>]
        ELSE IF a.status = "WAITING"
        THEN [threw |-> FALSE,
              alerts |-> <<SystemAlert("system:waiting_for_history", nowISO)>>,
              firedAt |-> ledger, status |-> a.status,
              totalPoints |-> a.totalPoints, numericPoints |-> a.numericPoints,
              fromISO |-> a.fromISO, toISO |-> a.toISO,
              zScore90 |-> NoAnalysis.z, series90 |-> <<>>]
        ELSE [threw |-> FALSE,
              alerts |-> IF Len(fired.alerts) = 0
                         THEN <<SystemAlert("system:all_clear", nowISO)>>
                         ELSE fired.alerts,
              firedAt |-> fired.firedAt, status |-> a.status,
              totalPoints |-> a.totalPoints, numericPoints |-> a.numericPoints,
              fromISO |-> a.fromISO, toISO |-> a.toISO,
              zScore90 |-> a.z,
              series90 |-> a.series90]

buildAlerts(points, ledger, nowISO, gate) ==
    With(Analyse(points), LAMBDA a : packOf(a, ledger, nowISO, gate))

----------------------------------------------------------------------------
(* Inputs: the lists of { date, rate } records handed to buildAlerts       *)

NumberRate(v) == [type |-> "number", fin |-> TRUE, v |-> v, s |-> <<>>]
NonFiniteRate == [type |-> "number", fin |-> FALSE, v |-> 0, s |-> <<>>]
StringRate(s) == [type |-> "string", fin |-> FALSE, v |-> 0, s |-> s]
OtherRate == [type |-> "other", fin |-> FALSE, v |-> 0, s |-> <<>>]

\* The date of day d, as the rows of the rates API carry it (12:00 UTC).
DayDate(d) == [ok |-> TRUE, t |-> 24 * d + 12]
BadDate == [ok |-> FALSE, t |-> 0]

Base == 2
Hi == 4
Lo == 1

PriceText == [v \in {Lo, Base, Hi} |->
                 CASE v = Lo -> <<"1">> [] v = Base -> <<"2", ".", "0">> [] OTHER -> <<"P", "4">>]

\* A price history of n days: Base, but Hi on the days 2 .. early + 1 and on
\* every second day before the last, spikes times; the last day is last.
ShapeRates(n, early, spikes, last) ==
    [i \in 1..n |->
        IF i = n THEN last
        ELSE IF i >= 2 /\ i <= early + 1 THEN Hi
        ELSE IF \E j \in 1..spikes : i = n - 2 * j THEN Hi
        ELSE Base]

\* The history as the API serves it: ascending, one row a day, the rate a
\* string.
CleanPoints(rates) ==
    [i \in 1..Len(rates) |-> [date |-> DayDate(i), rate |-> StringRate(PriceText[rates[i]])]]

\* One malformed record, as upstream rows and loose callers produce them.
JunkKinds ==
    {"none", "badDate", "textRate", "dashRate", "zeroRate", "negRate",
     "nanRate", "nullRate"}

Junk(p, kind) ==
    CASE kind = "badDate" -> [p EXCEPT !.date = BadDate]
      [] kind = "textRate" -> [p EXCEPT !.rate = StringRate(<<"N", "/", "A">>)]
      [] kind = "dashRate" -> [p EXCEPT !.rate = StringRate(<<"-">>)]
      [] kind = "zeroRate" -> [p EXCEPT !.rate = NumberRate(0)]
      [] kind = "negRate" -> [p EXCEPT !.rate = StringRate(<<"-", "1">>)]
      [] kind = "nanRate" -> [p EXCEPT !.rate = NonFiniteRate]
      [] kind = "nullRate" -> [p EXCEPT !.rate = OtherRate]
      [] OTHER -> p

Orders == {"asc", "desc", "swap"}

\* The list in another order: reversed, or its two halves exchanged.
Reorder(ps, order) ==
    LET n == Len(ps)
        h == n \div 2
    IN  CASE order = "desc" -> [i \in 1..n |-> ps[n + 1 - i]]
          [] order = "swap" -> [i \in 1..n |-> IF i <= n - h THEN ps[h + i] ELSE ps[i - (n - h)]]
          [] OTHER -> ps

\* The inputs of the model.  Histories as the API serves them, of 39, 40
\* and 91 days, flat or not (the ledger is followed over several invocations
\* on these); the same in more shapes; and the empty list, a one-day
\* history and a history of exactly minNeeded days with one record (the
\* first or the last day) malformed, in every order (for the normalisation
\* of one invocation).
EngineInputs ==
    {d \in [n : {minNeeded - 1, minNeeded, Window90 + 1}, early : {0, 8},
            spikes : {0, 1}, last : {Base, Hi}, junk : {"none"}, at : {1},
            order : {"asc"}] : d.spikes = 1 <=> d.early = 8}

CleanInputs ==
    [n : {minNeeded, Window90 + 1}, early : {0, 3, 8, 12}, spikes : {0, 1, 2},
     last : {Lo, Base, Hi}, junk : {"none"}, at : {1}, order : {"asc"}]

ShortInputs ==
    [n : {0, 1, minNeeded - 1}, early : {0}, spikes : {0},
     last : {Base, Hi}, junk : {"none"}, at : {1}, order : {"asc"}]

RawInputs ==
    [n : {minNeeded}, early : {0}, spikes : {0}, last : {Base, Hi},
     junk : JunkKinds, at : {1, minNeeded}, order : Orders]

\* Ninety days, flat or with a jump on the last day.
JumpInputs ==
    [n : {Window90}, early : {0}, spikes : {0}, last : {Base, Hi},
     junk : {"none"}, at : {1}, order : {"asc"}]

Inputs == EngineInputs \cup CleanInputs \cup ShortInputs \cup RawInputs \cup JumpInputs

\* The list of records an input stands for.
PointsOf(d) ==
    LET clean == CleanPoints(ShapeRates(d.n, d.early, d.spikes, d.last))
        junked == [i \in 1..d.n |-> IF i = d.at THEN Junk(clean[i], d.junk) ELSE clean[i]]
    IN  <<>> \o Reorder(junked, d.order)

\* Analyse over the inputs of the model, evaluated once.
Analysis == [d \in Inputs |-> With(PointsOf(d), Analyse)] @@ <<>>

----------------------------------------------------------------------------
(* The risk metrics of the dashboard (lib/fxMetrics.ts) and the two        *)
(* classifiers of the volatility regime                                    *)

IsFiniteNum(x) == x.fin

\* points.map((p) => Number(p.rate)).filter((x) => Number.isFinite(x)), for
\* points whose rate is a number.
cleanRatesOf(points) ==
    With(SelectSeq(points, IsFiniteNum), LAMBDA kept :
         <<>> \o [i \in 1..Len(kept) |-> kept[i].v])

\* The drawdown (x - peak) / peak as the fraction num / den with den > 0;
\* 0 when peak === 0.
DrawdownAt(x, peak) ==
    IF peak = 0 THEN [num |-> 0, den |-> 1]
    ELSE IF peak > 0 THEN [num |-> x - peak, den |-> peak]
    ELSE [num |-> peak - x, den |-> -peak]

\* a < b for two fractions of positive denominator.
FracLess(a, b) == a.num * b.den < b.num * a.den

RECURSIVE DrawdownPassFixedPeak(_, _, _, _)
\* The loop of computeMaxDrawdown without if (x > peak) peak = x: every
\* drawdown is measured from the first rate.
DrawdownPassFixedPeak(rates, i, peak, maxDd) ==
    IF i > Len(rates) THEN maxDd
    ELSE LET dd == DrawdownAt(rates[i], peak)
         IN  DrawdownPassFixedPeak(rates, i + 1, peak,
                                   IF FracLess(dd, maxDd) THEN dd ELSE maxDd)

RECURSIVE DrawdownPass(_, _, _, _)
\* The loop of computeMaxDrawdown from index i (counted from 1), with the
\* running peak and the lowest drawdown so far.  (The rates are finite:
\* computeFxRiskMetrics passes cleanRates.)
DrawdownPass(rates, i, peak, maxDd) ==
    IF i > Len(rates) THEN maxDd
    ELSE LET x == rates[i]
             nextPeak == IF x > peak THEN x ELSE peak
             dd == DrawdownAt(x, nextPeak)
         IN  DrawdownPass(rates, i + 1, nextPeak,
                          IF FracLess(dd, maxDd) THEN dd ELSE maxDd)

NoDrawdown == [null |-> TRUE, num |-> 0, den |-> 1]

\* computeMaxDrawdown(rates): null for fewer than 2 rates, else the lowest
\* drawdown of the pass (a finite number).
computeMaxDrawdown(rates) ==
    IF Len(rates) < 2 THEN NoDrawdown
    ELSE With(DrawdownPass(rates, 2, rates[1], [num |-> 0, den |-> 1]), LAMBDA maxDd :
             [null |-> FALSE, num |-> maxDd.num, den |-> maxDd.den])

MIN_RETURNS_FOR_VOL == 10

\* The simple daily returns cur / prev - 1 of the pairs of cleanRates whose
\* prev is not 0, in units of 1 / 4 (the rates of the longer histories of
\* the model are 0, 2 and 4, so that 4 * cur / prev is whole).
SimpleReturns(cleanRates) ==
    LET Valid(i) == cleanRates[i - 1] # 0
    IN  With(SelectSeq([i \in 1..(Len(cleanRates) - 1) |-> i + 1], Valid), LAMBDA pairs :
            <<>> \o [k \in 1..Len(pairs) |->
                        (4 * cleanRates[pairs[k]]) \div cleanRates[pairs[k] - 1] - 4])

NoVol == [null |-> TRUE, n |-> 0, q |-> 0]

\* stdevSample(xs): null for fewer than 2 values, else the square root of
\* the squared deviations over n - 1, kept as the pair (n, q) with
\* q = n * sum(x^2) - (sum x)^2 = n * sse.
stdevSample(xs) ==
    IF Len(xs) < 2 THEN NoVol
    ELSE [null |-> FALSE, n |-> Len(xs), q |-> stdScaledSq(xs)]

\* volAnnUpTo requiring maxReturns returns, as the strict volatilities do.
volAnnExactly(rets, maxReturns) ==
    IF Len(rets) < maxReturns THEN NoVol
    ELSE stdevSample(Last(rets, maxReturns))

\* volAnnUpTo(maxReturns): null below MIN_RETURNS_FOR_VOL returns, else
\* annualize(stdevSample(rets.slice(-Math.min(maxReturns, returnsCount)))).
volAnnUpTo(rets, maxReturns) ==
    IF Len(rets) < MIN_RETURNS_FOR_VOL THEN NoVol
    ELSE stdevSample(Last(rets, IF maxReturns < Len(rets) THEN maxReturns ELSE Len(rets)))

\* computeFxRiskMetrics(points): the count of finite rates, the count of
\* returns, the two volatilities and the maximum drawdown (the best and
\* worst daily move, the extremes of the same returns, are not followed).
computeFxRiskMetrics(points) ==
    With(cleanRatesOf(points), LAMBDA cleanRates :
        IF Len(cleanRates) < 2
        THEN [points |-> Len(cleanRates), returnsCount |-> 0,
              vol30Ann |-> NoVol, vol90Ann |-> NoVol, maxDrawdown |-> NoDrawdown]
        ELSE With(SimpleReturns(cleanRates), LAMBDA rets :
                 [points |-> Len(cleanRates),
                  returnsCount |-> Len(rets),
                  vol30Ann |-> volAnnUpTo(rets, Window30),
                  vol90Ann |-> volAnnUpTo(rets, Window90),
                  maxDrawdown |-> computeMaxDrawdown(cleanRates)]))

\* rollingAnnualizedVol(points, window) of the risk report: null for fewer
\* than window + 1 points; the log returns of all the pairs of positive
\* prices; null for fewer than window of them; else the sample standard
\* deviation (n - 1) of the last window returns, times sqrt(252) * 100.
\* The value is kept as the pair (n, q), q = n * sum(r^2) - (sum r)^2, the
\* returns in units of ln 2: the percentage is
\* sqrt(q / (n * (n - 1))) * ln 2 * sqrt(252) * 100.
rollingAnnualizedVol(rates, window) ==
    IF Len(rates) < window + 1 THEN [null |-> TRUE, n |-> 0, q |-> 0]
    ELSE With(LogReturns(rates), LAMBDA rets :
             IF Len(rets) < window THEN [null |-> TRUE, n |-> 0, q |-> 0]
             ELSE With(Last(rets, window), LAMBDA slice :
                      [null |-> FALSE, n |-> Len(slice), q |-> stdScaledSq(slice)]))

\* Volatilities are counted in units of 1 / VolUnit: the decimal 0.08 is
\* 8000 and the percentage 8 is 800000.
VolUnit == 100000

\* v * 100: the percentage of a decimal volatility.
PctOf(v) == v * 100

\* classifyRegime(volAnnPct) of the risk report, on a percentage.
classifyRegime(volAnnPct) ==
    IF volAnnPct < 8 * VolUnit THEN "LOW"
    ELSE IF volAnnPct <= 15 * VolUnit THEN "NORMAL"
    ELSE "HIGH"

\* The regime of the risk report: volAnn = vol30 ?? 0, then classifyRegime.
reportRegime(vol30) == classifyRegime(IF vol30.null THEN 0 ELSE vol30.v)

\* riskScore = clamp(Math.round((volAnn / 25) * 100), 0, 100), volAnn being
\* vol30 ?? 0, a percentage; Math.round(x) is floor(x + 1 / 2).
riskScoreOf(vol30) ==
    LET volAnn == IF vol30.null THEN 0 ELSE vol30.v
        rounded == (8 * volAnn + VolUnit) \div (2 * VolUnit)
    IN  IF rounded < 0 THEN 0 ELSE IF rounded > 100 THEN 100 ELSE rounded

\* volDisplay = vol30 === null ? "N/A (needs >= 31 pts)" : pct(vol30, 2)
volDisplayOf(vol30) == IF vol30.null THEN "N/A" ELSE "pct"

Presets == {"7D", "30D", "90D", "YTD"}

regimeWindowReturns(preset) ==
    CASE preset = "7D" -> 7 [] preset = "30D" -> 30 [] OTHER -> 90

\* The label of the volatility regime badge of the dashboard, on decimal
\* volatilities: v < 0.08, v < 0.15.
volRegime(activePreset, vol30, vol90) ==
    LET volForWindow == IF regimeWindowReturns(activePreset) <= 30 THEN vol30 ELSE vol90
    IN  IF volForWindow.null THEN "-"
        ELSE IF volForWindow.v < (8 * VolUnit) \div 100 THEN "Low Vol"
        ELSE IF volForWindow.v < (15 * VolUnit) \div 100 THEN "Normal Vol"
        ELSE "High Vol"

\* pctChange(from, to), a percentage, kept as a fraction (from >= 0).
pctChange(from, to) ==
    IF from = 0 THEN [num |-> 0, den |-> 1]
    ELSE [num |-> 100 * (to - from), den |-> from]

\* f < (tenths / 10) * Math.sqrt(days / 7) for a fraction f >= 0: both
\* sides squared, f in lowest terms.
BelowScaled(f, tenths, days) ==
    LET l == Lowest(f.num, f.den)
    IN  700 * l[1] * l[1] < tenths * tenths * days * l[2] * l[2]

\* The signs of the day-over-day deltas that are not 0, in order.
DeltaSigns(rates) ==
    LET Sign(i) == IF rates[i + 1] > rates[i] THEN 1
                   ELSE IF rates[i + 1] < rates[i] THEN -1 ELSE 0
        NotZero(x) == x # 0
    IN  SelectSeq([i \in 1..(Len(rates) - 1) |-> Sign(i)], NotZero)

\* The loop of reversals with prevSign = sign for every delta: a delta of 0
\* ends the run, and the next move counts as no reversal.
reversalsResetByZero(rates) ==
    Cardinality({i \in 2..(Len(rates) - 1) :
        /\ rates[i + 1] # rates[i]
        /\ rates[i] # rates[i - 1]
        /\ (rates[i + 1] > rates[i]) # (rates[i] > rates[i - 1])})

\* The loop of reversals: each delta that is not 0 and whose sign differs
\* from the sign of the last delta that was not 0 counts one.
reversalsOf(rates) ==
    With(DeltaSigns(rates), LAMBDA signs :
        Cardinality({k \in 2..Len(signs) : signs[k] # signs[k - 1]}))

NoBehavior ==
    [behavior |-> "null", rangePct |-> [num |-> 0, den |-> 1],
     netMovePct |-> [num |-> 0, den |-> 1], reversals |-> 0]

\* classifyFxBehavior(pointsAsc), on the rates of the points (not negative).
classifyFxBehavior(rates) ==
    IF Len(rates) < 3 THEN NoBehavior
    ELSE LET min == SeqMin(rates)
             max == SeqMax(rates)
             first == rates[1]
             last == rates[Len(rates)]
             rangePct == IF min > 0 THEN [num |-> 100 * (max - min), den |-> min]
                         ELSE [num |-> 0, den |-> 1]
             change == pctChange(first, last)
             netMovePct == [num |-> IF change.num < 0 THEN -change.num ELSE change.num,
                            den |-> change.den]
             reversals == reversalsOf(rates)
             days == Max(2, Len(rates) - 1)
             behavior ==
                 IF BelowScaled(netMovePct, 4, days) /\ BelowScaled(rangePct, 7, days)
                 THEN "RANGE_BOUND"
                 ELSE IF BelowScaled(netMovePct, 8, days) /\ ~BelowScaled(rangePct, 7, days)
                 THEN "CHOPPY"
                 ELSE IF ~BelowScaled(netMovePct, 9, days)
                 THEN "DIRECTIONAL_WITH_SWINGS"
                 ELSE IF reversals >= Max(2, days \div 4)
                 THEN "CHOPPY"
                 ELSE "DIRECTIONAL_WITH_SWINGS"
         IN  [behavior |-> behavior, rangePct |-> rangePct,
              netMovePct |-> netMovePct, reversals |-> reversals]

----------------------------------------------------------------------------
(* The import of the BSP table (app/api/cron/import-bsp/route.ts).  Time   *)
(* is counted in hours from 00:00 UTC of the first day of the first month  *)
(* of the table; a month has MonthDays days.                               *)

MonthDays == 2
MaxClock == 70
MaxImports == 2
MaxAttempts == 4
PAIR == "USD/PHP"

\* parseMonthYear(label): the rank of the month among the months of the
\* table, 0 for null (a label that is not Mon-YY).
parseMonthYear(label) ==
    CASE label = "Jan-25" -> 1
      [] label = "Feb-25" -> 2
      [] OTHER -> 0

\* parseInt(dayText, 10) and parseFloat(rateText) on the cells of the
\* model (commas removed from a rate before): NaN for a text that does not
\* start with a number.
ParseNumber(text) ==
    CASE text = "1" -> Num(1) [] text = "2" -> Num(2) [] text = "3" -> Num(3)
      [] text = "57" -> Num(57) [] text = "58" -> Num(58)
      [] text = "1,058" -> Num(1058)
      [] OTHER -> NaN

\* new Date(Date.UTC(year, month - 1, day, 12, 0, 0)): noon of the day, a
\* day past the end of the month falling in the month after.
DateUTC(month, day) == 24 * (MonthDays * (month - 1) + day - 1) + 12

\* getManilaTodayEndUtc() at the instant clock: 15:59:59.999 UTC of the
\* date Manila (UTC+8) has; the hour is kept, every date compared with it
\* being on the hour.
getManilaTodayEndUtc(clock) == 24 * ((clock + 8) \div 24) + 15

NoRows == <<>>

\* prisma.exchangeRate.upsert with create for every call: a row is added
\* even when one of the pair and date is stored.
upsertCreate(rows, date, rate) ==
    Append(rows, [pair |-> PAIR, date |-> date, rate |-> rate, source |-> "BSP"])

\* prisma.exchangeRate.upsert({ where: { pair_date }, update: { rate,
\* source }, create: { pair, date, rate, source } }) on the stored rows.
upsert(rows, date, rate) ==
    IF \E k \in 1..Len(rows) : rows[k].pair = PAIR /\ rows[k].date = date
    THEN [k \in 1..Len(rows) |->
            IF rows[k].pair = PAIR /\ rows[k].date = date
            THEN [rows[k] EXCEPT !.rate = rate, !.source = "BSP"]
            ELSE rows[k]]
    ELSE Append(rows, [pair |-> PAIR, date |-> date, rate |-> rate, source |-> "BSP"])

\* The body of the loop over the rate cells of a row.
upsertCell(acc, months, day, rates, i, cutoff) ==
    LET ym == parseMonthYear(months[i])
        rate == ParseNumber(rates[i])
        date == DateUTC(ym, day)
    IN  IF ym = 0 \/ rates[i] = "" \/ ~rate.fin \/ date > cutoff THEN acc
        ELSE [rows |-> upsert(acc.rows, date, rate.v),
              upserts |-> acc.upserts + 1,
              written |-> acc.written \cup {date}]

RECURSIVE upsertTable(_, _, _, _, _)
\* The loops over the rows after the header and over their rate cells,
\* from cell i of row r.
upsertTable(acc, table, r, i, cutoff) ==
    IF r > Len(table.rows) THEN acc
    ELSE LET day == ParseNumber(table.rows[r].day)
             rates == table.rows[r].rates
         IN  IF ~day.fin \/ i > Len(rates) \/ i > Len(table.months)
             THEN upsertTable(acc, table, r + 1, 1, cutoff)
             ELSE upsertTable(upsertCell(acc, table.months, day.v, rates, i, cutoff),
                              table, r, i + 1, cutoff)

\* The upstream tables: the cells of the header after Date, and two rows of
\* a day and of rate cells (blank, a rate, a rate with a comma, a note),
\* the second row with one cell or two.
Tables ==
    [months : {<<"Jan-25", "Feb-25">>, <<"Jan-25", "Total">>,
               <<"Jan-25", "Jan-25">>, <<"Total", "">>},
     rows : {<<[day |-> d1, rates |-> r1], [day |-> d2, rates |-> r2]>> :
                d1 \in {"1", ""}, d2 \in {"2", "3"},
                r1 \in {<<"57", "n/a">>, <<"", "57">>},
                r2 \in {<<"58", "58">>, <<"1,058">>}}]

\* The rows stored before: none, or one of an earlier import.
StoredBefore ==
    {NoRows,
     <<[pair |-> PAIR, date |-> DateUTC(1, 2), rate |-> 56, source |-> "BSP"]>>}

NoJob ==
    [phase |-> "idle", table |-> CHOOSE t \in Tables : TRUE, clock |-> 0,
     rows |-> NoRows, db0 |-> NoRows, prior |-> NoRows, written |-> {},
     attempt |-> 0, log |-> <<>>, waits |-> <<>>, lastErr |-> "none",
     status |-> 0, error |-> "none", upserts |-> 0,
     requests |-> 0, imports |-> 0, cut |-> -1, prevCut |-> -1]

----------------------------------------------------------------------------
(* The caller: the ledger is kept between invocations and handed back      *)

\* The last instant of the model, in hours after instant 0.
MaxHours == 25
\* The greatest delay, in milliseconds, between the reading of the clock on
\* entry (nowISO) and the reading by canFire.
MaxSkew == 1
\* The number of invocations followed, each on the ledger the one before it
\* returned.
MaxLoads == 2

\* The instants at which the engine is invoked: around the cooldown
\* windows after instant 0.
Instants ==
    {0, HourMs, MaxHours * HourMs}
        \cup {h * HourMs - e : h \in {CooldownCritical, CooldownAlert}, e \in 0..1}

AllKinds == RuleKinds \cup SystemKinds

\* A ledger as the caller may have stored it: empty, or one kind, fired at
\* instant 0.
InitLedgers == {<<>>} \cup {[k \in {kind} |-> 0] : kind \in AllKinds}

\* The readings of Date.now() by canFire in an invocation entered at instant
\* t: at or after t.  The calls of one invocation follow one another at
\* once, and the model gives the three of them the same reading.
Gates(t) == {<<t + skew, t + skew, t + skew>> : skew \in 0..MaxSkew}

\* No invocation made yet: the caller holds no pack.
NoPack ==
    [threw |-> FALSE, alerts |-> <<>>, firedAt |-> <<>>, status |-> "NONE",
     totalPoints |-> 0, numericPoints |-> 0, fromISO |-> -1, toISO |-> -1,
     zScore90 |-> NoAnalysis.z, series90 |-> <<>>]

NoCall ==
    [made |-> FALSE, input |-> CHOOSE d \in ShortInputs : d.n = 0 /\ d.last = Base,
     ledger |-> <<>>, nowISO |-> 0, gate |-> <<0, 0, 0>>]

\* The browser tabs the alerts page may be open in; they share the storage
\* of the browser.
Tabs == {1, 2}

\* The alerts page in a tab, not open: no state.  Of an open page: read is
\* the stored map the first effect found, alertMemory the state of that
\* name, captured the value of alertMemory in the closure of load, stored
\* the stored map when load was done, at the instant of its invocation of
\* buildAlerts, began and ended the ranks of its mounting and of the end of
\* its load among the steps of all tabs.
ClosedTab ==
    [phase |-> "closed", read |-> <<>>, alertMemory |-> <<>>, captured |-> <<>>,
     stored |-> <<>>, status |-> "NONE", alerts |-> <<>>, at |-> 0,
     began |-> 0, ended |-> 0]

\* No figure computed yet by the dashboard and the risk report.
NoCalc ==
    [op |-> "none", points |-> <<>>,
     metrics |-> [points |-> 0, returnsCount |-> 0, vol30Ann |-> NoVol,
                  vol90Ann |-> NoVol, maxDrawdown |-> NoDrawdown],
     preset |-> "90D", vol30 |-> Null, vol90 |-> Null, regime |-> "none",
     riskScore |-> 0, display |-> "none",
     rates |-> <<>>, window |-> 0, vol |-> [null |-> TRUE, n |-> 0, q |-> 0],
     fx |-> NoBehavior]

Init ==
    /\ now = 0
    /\ firedAt \in InitLedgers
    /\ pack = NoPack
    /\ call = NoCall
    /\ loads = 0
    /\ tabs = [i \in Tabs |-> ClosedTab]
    /\ calc = NoCalc
    /\ job = NoJob

\* One invocation of buildAlerts at instant t, on input d and a copy of the
\* kept ledger; the caller keeps the pack and the ledger it returns.  An
\* invocation that throws returns nothing, and the kept ledger stays.  The
\* caller here hands back the ledger of the invocation before, which is how
\* buildAlerts is given ledgers with entries; what the alerts page hands it
\* is the matter of Mount and PageLoad below.
Invoke(d, t, gate) ==
    LET result == packOf(Analysis[d], firedAt, t, gate)
    IN  /\ now' = t
        /\ pack' = result
        /\ firedAt' = IF result.threw THEN firedAt ELSE result.firedAt
        /\ call' = [made |-> TRUE, input |-> d, ledger |-> firedAt,
                    nowISO |-> t, gate |-> gate]
        /\ loads' = loads + 1
        /\ UNCHANGED <<tabs, calc, job>>

\* The caller is done with the pack (it was displayed); the ledger is kept
\* for the next invocation.
Discard ==
    /\ call.made
    /\ pack' = NoPack
    /\ call' = NoCall
    /\ UNCHANGED <<now, firedAt, loads, tabs, calc, job>>

\* The instants an invocation may start at: the clock does not run backwards.
Later == {t \in Instants : t >= now}

Load ==
    /\ ~call.made
    /\ loads < MaxLoads
    /\ \E t \in Later : \E gate \in Gates(t) : \E d \in EngineInputs : Invoke(d, t, gate)

Next ==
    \/ Load
    \/ Discard

Spec == Init /\ [][Next]_vars

\* One invocation, on any input of the model.
LoadAny ==
    /\ ~call.made
    /\ \E t \in Later : \E gate \in Gates(t) : \E d \in Inputs : Invoke(d, t, gate)

NextInput == LoadAny

SpecInput == Init /\ [][NextInput]_vars

----------------------------------------------------------------------------
(* buildAlerts invoked for ever on one series, the returned ledger fed     *)
(* back, while time passes                                                 *)

\* The hours that pass in one step of the clock.
TickHours == 6

\* Instants are counted from an origin that follows the clock, Horizon
\* behind it: the clock reads Horizon at every invocation, and when time
\* passes the entries of the ledger move back instead.  An entry that
\* reaches the origin stays there: it is older than every cooldown, and
\* canFire reads nothing of an entry but whether its age has reached the
\* cooldown.
Horizon == MaxHours * HourMs

\* The ledgers the invocations start from: empty, or one rule kind, fired
\* at the origin, an hour ago, now, or an hour ahead of the clock (stored
\* by a browser whose clock was ahead).
LiveLedgers ==
    {<<>>} \cup {[k \in {kind} |-> t] : kind \in RuleKinds,
                   t \in {0, Horizon - HourMs, Horizon, Horizon + HourMs}}

\* The series is chosen once; every invocation is on it.
InitLive ==
    /\ now = Horizon
    /\ firedAt \in LiveLedgers
    /\ pack = NoPack
    /\ \E d \in EngineInputs : call = [NoCall EXCEPT !.input = d]
    /\ loads = 0
    /\ tabs = [i \in Tabs |-> ClosedTab]
    /\ calc = NoCalc
    /\ job = NoJob

\* buildAlerts is invoked on the series and on the ledger kept; the caller
\* keeps the ledger returned.
LiveInvoke ==
    /\ ~call.made
    /\ \E gate \in Gates(now) :
          LET result == packOf(Analysis[call.input], firedAt, now, gate)
          IN  /\ pack' = result
              /\ firedAt' = result.firedAt
              /\ call' = [made |-> TRUE, input |-> call.input, ledger |-> firedAt,
                          nowISO |-> now, gate |-> gate]
    /\ UNCHANGED <<now, loads, tabs, calc, job>>

\* The caller is done with the pack; the series and the ledger are kept.
LiveDiscard ==
    /\ call.made
    /\ pack' = NoPack
    /\ call' = [NoCall EXCEPT !.input = call.input]
    /\ UNCHANGED <<now, firedAt, loads, tabs, calc, job>>

\* TickHours pass between two invocations.
Tick ==
    /\ ~call.made
    /\ firedAt' = [k \in DOMAIN firedAt |-> Max(firedAt[k] - TickHours * HourMs, 0)]
    /\ UNCHANGED <<now, pack, call, loads, tabs, calc, job>>

NextLive ==
    \/ LiveInvoke
    \/ LiveDiscard
    \/ Tick

\* buildAlerts keeps being invoked and time keeps passing.  Time passes
\* whatever the caller does; the model lets it pass between two invocations
\* only, so the fairness of Tick is the strong one: the invocations do not
\* hold the clock back.
SpecLive ==
    /\ InitLive
    /\ [][NextLive]_vars
    /\ WF_vars(LiveInvoke)
    /\ WF_vars(LiveDiscard)
    /\ SF_vars(Tick)

----------------------------------------------------------------------------
(* The alerts page: firedAt is the map stored under the key                *)
(* pesopilot_alerts_firedAt of the browser, shared by the tabs             *)

\* The number of steps (mountings and loads) of the tabs together.
MaxSteps == 4

\* What the rates API answers a load of the page: forty days in the shapes
\* of EngineInputs, too short a history, or a history with a row whose date
\* does not parse.
PageInputs ==
    {d \in EngineInputs : d.n = minNeeded}
        \cup {d \in ShortInputs : d.n = minNeeded - 1 /\ d.last = Base}
        \cup {d \in RawInputs : d.junk = "badDate" /\ d.at = 1 /\ d.order = "asc" /\ d.last = Base}

\* The empty list of points, which the catch of load hands to buildAlerts.
NoPoints == CHOOSE d \in ShortInputs : d.n = 0 /\ d.last = Base

\* No tab has the page open and nothing is stored yet.
InitPage ==
    /\ now = 0
    /\ firedAt = <<>>
    /\ pack = NoPack
    /\ call = NoCall
    /\ loads = 0
    /\ tabs = [i \in Tabs |-> ClosedTab]
    /\ calc = NoCalc
    /\ job = NoJob

\* The page is opened in tab i.  The first render has alertMemory = {} (the
\* initial state); both effects run after it.  The first reads the stored
\* map and sets alertMemory to it; the second, whose dependency list is
\* empty, defines load in the scope of the first render and calls it, so the
\* alertMemory that load reads is the one of the first render for good.
Mount(i) ==
    /\ tabs[i].phase = "closed"
    /\ loads < MaxSteps
    /\ tabs' = [tabs EXCEPT ![i] =
                   [ClosedTab EXCEPT !.phase = "fetching", !.read = firedAt,
                                     !.alertMemory = firedAt, !.captured = <<>>,
                                     !.began = loads + 1]]
    /\ loads' = loads + 1
    /\ UNCHANGED <<now, firedAt, pack, call, calc, job>>

\* The fetch of tab i is answered with history d at instant t: load calls
\* buildAlerts on the points and on a copy of the alertMemory of its closure,
\* sets the pack and, if the text of the returned ledger is not the text of
\* that alertMemory, sets alertMemory to the returned ledger and stores its
\* text.  If buildAlerts throws, the catch sets the pack of the empty list and
\* nothing is stored.  (The two texts list the keys in the order of
\* insertion; the ledger returned starts as a copy of the one given, so the
\* texts are equal exactly if the maps are.)
PageLoad(i, d, t, gate) ==
    LET nextPack == packOf(Analysis[d], tabs[i].captured, t, gate)
        shown == IF nextPack.threw
                 THEN packOf(Analysis[NoPoints], tabs[i].captured, t, gate)
                 ELSE nextPack
        differs == ~nextPack.threw /\ nextPack.firedAt # tabs[i].captured
        written == IF differs THEN nextPack.firedAt ELSE firedAt
    IN  /\ tabs[i].phase = "fetching"
        /\ loads < MaxSteps
        /\ now' = t
        /\ firedAt' = written
        /\ tabs' = [tabs EXCEPT ![i] =
                       [@ EXCEPT !.phase = "shown",
                                 !.alertMemory = IF differs THEN nextPack.firedAt ELSE @,
                                 !.stored = written,
                                 !.status = shown.status,
                                 !.alerts = shown.alerts,
                                 !.at = t,
                                 !.ended = loads + 1]]
        /\ loads' = loads + 1
        /\ UNCHANGED <<pack, call, calc, job>>

\* The fetch of tab i fails (or its answer is no JSON): the catch sets the
\* pack of the empty list, and nothing is stored.
FetchFails(i, t, gate) ==
    LET shown == packOf(Analysis[NoPoints], tabs[i].captured, t, gate)
    IN  /\ tabs[i].phase = "fetching"
        /\ loads < MaxSteps
        /\ now' = t
        /\ tabs' = [tabs EXCEPT ![i] =
                       [@ EXCEPT !.phase = "shown", !.stored = firedAt,
                                 !.status = shown.status, !.alerts = shown.alerts,
                                 !.at = t, !.ended = loads + 1]]
        /\ loads' = loads + 1
        /\ UNCHANGED <<firedAt, pack, call, calc, job>>

\* Tab i leaves the page (or reloads it: Close, then Mount).  A load still
\* under way finds alive false and sets nothing.
Close(i) ==
    /\ tabs[i].phase # "closed"
    /\ tabs' = [tabs EXCEPT ![i] = ClosedTab]
    /\ UNCHANGED <<now, firedAt, pack, call, loads, calc, job>>

Answered ==
    \E i \in Tabs : \E t \in Later : \E gate \in Gates(t) : \E d \in PageInputs :
        PageLoad(i, d, t, gate)

Failed == \E i \in Tabs : \E t \in Later : \E gate \in Gates(t) : FetchFails(i, t, gate)

NextPage ==
    \/ \E i \in Tabs : Mount(i)
    \/ Answered
    \/ Failed
    \/ \E i \in Tabs : Close(i)

SpecPage == InitPage /\ [][NextPage]_vars

----------------------------------------------------------------------------
(* The dashboard and the risk report compute their figures                 *)

\* The greatest number of chart points handed to computeFxRiskMetrics.
MaxRates == 4

\* The rates of the chart points: prices, and what Number(p.rate) may also
\* be (0, a negative number, NaN).
RateValues == {Num(v) : v \in {-1, 0, 1, 2, 3, 4}} \cup {NaN}

RECURSIVE ListsOf(_, _)
\* The lists of n elements of S.
ListsOf(S, n) ==
    IF n = 0 THEN {<<>>}
    ELSE {Append(xs, x) : xs \in ListsOf(S, n - 1), x \in S}

\* Longer histories of the chart: of 11 to 92 days, in the shapes of
\* ShapeRates, with zeros rates 0 set three days apart among the last days
\* and, when nan is 1, a rate that is not finite five days before the last.
ChartSeries ==
    [n : {11, 12, 31, 32, 92}, early : {0, 3}, spikes : {0, 1, 2},
     last : {Base, Hi}, zeros : 0..2, nan : {0, 1}]

ChartPointsOf(d) ==
    LET shape == ShapeRates(d.n, d.early, d.spikes, d.last)
    IN  <<>> \o [i \in 1..d.n |->
                    IF d.nan = 1 /\ i = d.n - 5 THEN NaN
                    ELSE IF \E j \in 1..d.zeros : i = d.n - 3 * j THEN Num(0)
                    ELSE Num(shape[i])]

ChartInputs ==
    UNION {ListsOf(RateValues, n) : n \in 0..MaxRates}
        \cup {ChartPointsOf(d) : d \in ChartSeries}

\* Decimal volatilities around the two thresholds (7.999 %, 8 %, 8.001 %,
\* 14.999 %, 15 %, 15.001 %), and null.
VolInputs ==
    {Some(v) : v \in {7999, 8000, 8001, 14999, 15000, 15001}} \cup {Null}

\* The dashboard computes the risk metrics of its chart points.
Metrics(points) ==
    /\ calc.op = "none"
    /\ calc' = [calc EXCEPT !.op = "computeFxRiskMetrics", !.points = points,
                            !.metrics = computeFxRiskMetrics(points)]
    /\ UNCHANGED <<now, firedAt, pack, call, loads, tabs, job>>

\* The dashboard labels the regime of the volatilities of its metrics.
Badge(preset, vol30, vol90) ==
    /\ calc.op = "none"
    /\ calc' = [calc EXCEPT !.op = "volRegime", !.preset = preset, !.vol30 = vol30,
                            !.vol90 = vol90, !.regime = volRegime(preset, vol30, vol90)]
    /\ UNCHANGED <<now, firedAt, pack, call, loads, tabs, job>>

\* The risk report, from the 30-day volatility, a percentage, that
\* rollingAnnualizedVol returned (null when there are too few points): the
\* regime, the risk score and the text of the volatility.
Report(vol30) ==
    /\ calc.op = "none"
    /\ LET pct == IF vol30.null THEN Null ELSE Some(PctOf(vol30.v))
       IN  calc' = [calc EXCEPT !.op = "classifyRegime",
                                !.vol30 = pct,
                                !.regime = reportRegime(pct),
                                !.riskScore = riskScoreOf(pct),
                                !.display = volDisplayOf(pct)]
    /\ UNCHANGED <<now, firedAt, pack, call, loads, tabs, job>>

\* Price histories for the rolling volatilities: of window, window + 1 and
\* window + 10 days, in the shapes of ShapeRates, with zeros prices 0 set
\* three days apart among the last days, and one more on the second day
\* when old is 1.
SeriesInputs ==
    {d \in [window : {12, Window30}, more : {0, 1, 10}, early : {0, 3},
            spikes : {0, 1, 2}, last : {Base, Hi}, zeros : 0..4, old : {0, 1}] :
        d.old = 1 => d.more = 10}

SeriesOf(d) ==
    LET n == d.window + d.more
        shape == ShapeRates(n, d.early, d.spikes, d.last)
    IN  <<>> \o [i \in 1..n |->
                    IF (\E j \in 1..d.zeros : i = n - 3 * j) \/ (d.old = 1 /\ i = 2)
                    THEN 0 ELSE shape[i]]

\* The alerts engine computes the rolling volatility of a window.
AlertVol(d) ==
    /\ calc.op = "none"
    /\ calc' = [calc EXCEPT !.op = "rollingVolAnnualized", !.rates = SeriesOf(d),
                            !.window = d.window,
                            !.vol = rollingVolAnnualized(SeriesOf(d), d.window)]
    /\ UNCHANGED <<now, firedAt, pack, call, loads, tabs, job>>

\* The risk report computes the rolling volatility of a window.
ReportVol(d) ==
    /\ calc.op = "none"
    /\ calc' = [calc EXCEPT !.op = "rollingAnnualizedVol", !.rates = SeriesOf(d),
                            !.window = d.window,
                            !.vol = rollingAnnualizedVol(SeriesOf(d), d.window)]
    /\ UNCHANGED <<now, firedAt, pack, call, loads, tabs, job>>

\* Periods of the risk report for the behaviour label: every period of up
\* to 3 rates among 0 and 500 to 503, and periods of 8, 13 and 29 days that
\* start at first, swing to peak and back on swings alternate days, stay
\* at first, and end at last (offsets from 1000 for 8 days, where
\* sqrt(days / 7) is 1, and from 500 otherwise).
BehaviorSeries ==
    [n : {8, 13, 29}, first : {0, 2, 3, 4, 7, 8, 9}, last : {0, 2, 3, 4, 7, 8, 9},
     peak : {0, 2, 3, 4, 7, 8, 9}, swings : 0..4]

BehaviorRatesOf(d) ==
    LET base == IF d.n = 8 THEN 1000 ELSE 500
    IN  <<>> \o [i \in 1..d.n |->
                    IF i = 1 THEN base + d.first
                    ELSE IF i = d.n THEN base + d.last
                    ELSE IF \E j \in 1..d.swings : i = 2 * j THEN base + d.peak
                    ELSE base + d.first]

BehaviorInputs ==
    UNION {ListsOf({0, 500, 501, 502, 503}, n) : n \in 0..3}
        \cup {BehaviorRatesOf(d) : d \in BehaviorSeries}

\* The risk report labels the behaviour of the rates of its period.
Behavior(rates) ==
    /\ calc.op = "none"
    /\ calc' = [calc EXCEPT !.op = "classifyFxBehavior", !.rates = rates,
                            !.fx = classifyFxBehavior(rates)]
    /\ UNCHANGED <<now, firedAt, pack, call, loads, tabs, job>>

NextMetrics ==
    \/ \E rates \in BehaviorInputs : Behavior(rates)
    \/ \E d \in SeriesInputs : AlertVol(d)
    \/ \E d \in SeriesInputs : ReportVol(d)
    \/ \E points \in ChartInputs : Metrics(points)
    \/ \E preset \in Presets : \E vol30 \in VolInputs : \E vol90 \in VolInputs :
          Badge(preset, vol30, vol90)
    \/ \E vol30 \in VolInputs : Report(vol30)

SpecMetrics == InitPage /\ [][NextMetrics]_vars

----------------------------------------------------------------------------
(* The requests of the import                                              *)

InitImport ==
    /\ now = 0
    /\ firedAt = <<>>
    /\ pack = NoPack
    /\ call = NoCall
    /\ loads = 0
    /\ tabs = [i \in Tabs |-> ClosedTab]
    /\ calc = NoCalc
    /\ \E t \in Tables : \E db \in StoredBefore : \E c \in {10, 40} :
          job = [NoJob EXCEPT !.table = t, !.clock = c, !.rows = db, !.db0 = db]

\* GET is requested: without the header of the cron the answer is 401;
\* with it the handler goes on to fetchBspHtmlWithRetry.
Request(isVercelCron) ==
    /\ job.phase \in {"idle", "done"}
    /\ job.requests < MaxImports
    /\ job' = IF ~isVercelCron
              THEN [job EXCEPT !.phase = "done", !.status = 401,
                               !.error = "Unauthorized", !.requests = @ + 1,
                               !.prior = job.rows, !.written = {},
                               !.attempt = 0, !.log = <<>>, !.waits = <<>>]
              ELSE [job EXCEPT !.phase = "fetching", !.status = 0, !.error = "none",
                               !.requests = @ + 1, !.prior = job.rows,
                               !.written = {}, !.attempt = 1, !.log = <<>>,
                               !.waits = <<>>, !.lastErr = "none", !.upserts = 0]
    /\ UNCHANGED <<now, firedAt, pack, call, loads, tabs, calc>>

\* The turn of the loop with waitMs = 500 at every attempt.
AttemptWithoutBackoff(ok, e) ==
    /\ job.phase = "fetching"
    /\ job' = IF ok
              THEN [job EXCEPT !.phase = "parsing", !.log = Append(@, "ok")]
              ELSE With([job EXCEPT !.log = Append(@, e), !.lastErr = e,
                                    !.waits = Append(@, 500),
                                    !.attempt = @ + 1],
                        LAMBDA j :
                            IF j.attempt <= MaxAttempts THEN j
                            ELSE [j EXCEPT !.phase = "done", !.status = 500,
                                           !.error = j.lastErr])
    /\ UNCHANGED <<now, firedAt, pack, call, loads, tabs, calc>>

\* One turn of the loop of fetchBspHtmlWithRetry: axios.get resolves, and
\* the response is returned; or it rejects with e, the loop waits
\* 500 * 2^(attempt - 1) ms, and after the attempt MaxAttempts lastErr is
\* thrown to the catch of GET, which answers 500.  log holds the outcomes
\* of the attempts of the request.
Attempt(ok, e) ==
    /\ job.phase = "fetching"
    /\ job' = IF ok
              THEN [job EXCEPT !.phase = "parsing", !.log = Append(@, "ok")]
              ELSE With([job EXCEPT !.log = Append(@, e), !.lastErr = e,
                                    !.waits = Append(@, 500 * 2 ^ (job.attempt - 1)),
                                    !.attempt = @ + 1],
                        LAMBDA j :
                            IF j.attempt <= MaxAttempts THEN j
                            ELSE [j EXCEPT !.phase = "done", !.status = 500,
                                           !.error = j.lastErr])
    /\ UNCHANGED <<now, firedAt, pack, call, loads, tabs, calc>>

\* The rest of GET on the response: the header is read, and with no month
\* parsed from it the handler throws and answers 500; else the rate cells
\* not after the cutoff are upserted and the answer is 200.
Store ==
    /\ job.phase = "parsing"
    /\ LET cutoffUtc == getManilaTodayEndUtc(job.clock)
           monthCount == Cardinality({i \in 1..Len(job.table.months) :
                                         parseMonthYear(job.table.months[i]) # 0})
           done == upsertTable([rows |-> job.rows, upserts |-> 0, written |-> {}],
                               job.table, 1, 1, cutoffUtc)
       IN  job' = IF monthCount = 0
                  THEN [job EXCEPT !.phase = "done", !.status = 500,
                                   !.error = "No months parsed from header."]
                  ELSE [job EXCEPT !.phase = "done", !.status = 200,
                                   !.rows = done.rows, !.upserts = done.upserts,
                                   !.written = done.written, !.imports = @ + 1,
                                   !.prevCut = job.cut, !.cut = cutoffUtc]
    /\ UNCHANGED <<now, firedAt, pack, call, loads, tabs, calc>>

\* A day passes between two requests.
NextDay ==
    /\ job.phase \in {"idle", "done"}
    /\ job.clock + 24 <= MaxClock
    /\ job' = [job EXCEPT !.clock = @ + 24]
    /\ UNCHANGED <<now, firedAt, pack, call, loads, tabs, calc>>

NextImport ==
    \/ \E isVercelCron \in BOOLEAN : Request(isVercelCron)
    \/ \E ok \in BOOLEAN : \E e \in {"ETIMEDOUT", "ECONNRESET"} : Attempt(ok, e)
    \/ Store
    \/ NextDay

SpecImport == InitImport /\ [][NextImport]_vars

\* The requests on the tables whose rows are the same, at one instant.
InitRetry ==
    /\ InitImport
    /\ job.clock = 10
    /\ job.table.rows = <<[day |-> "1", rates |-> <<"57", "n/a">>],
                          [day |-> "2", rates |-> <<"58", "58">>]>>

\* A request that was received is handled to its answer: each axios.get
\* settles (its timeout is 20 s), each wait ends, and the handler runs on.
SpecRetry ==
    InitRetry /\ [][NextImport]_vars
        /\ WF_vars(\E ok \in BOOLEAN : \E e \in {"ETIMEDOUT", "ECONNRESET"} : Attempt(ok, e))
        /\ WF_vars(Store)

----------------------------------------------------------------------------
(* Properties of one invocation: call holds what buildAlerts was given and *)
(* pack what it returned                                                   *)

\* The invocation returned a pack (it did not throw).
Returned == call.made /\ ~pack.threw

\* The ids of the alerts of the returned list.
AlertIds == {pack.alerts[i].id : i \in 1..Len(pack.alerts)}

\* The rule kinds whose condition the series of the invocation meets.
Triggered ==
    LET rules == Analysis[call.input].rules
    IN  {rules[i] : i \in 1..Len(rules)} \ {"none"}

\* The rule (1 deviation, 2 volatility, 3 range) a kind belongs to.
RuleOf(k) ==
    IF k \in {"move:rare", "move:notable", "move:watch"} THEN 1
    ELSE IF k \in {"vol:jump", "vol:rising"} THEN 2 ELSE 3

\* The time elapsed since the ledger entry of kind k, when the invocation
\* reads the clock to test the cooldown of k.
Elapsed(k) == call.gate[RuleOf(k)] - call.ledger[k]

\* The cooldown windows as the specification states them, in milliseconds.
StatedCooldown(k) ==
    CASE k = "move:rare" -> 12 * 3600000
      [] k \in {"move:notable", "vol:jump", "range:break20"} -> 24 * 3600000
      [] k \in {"move:watch", "vol:rising"} -> 24 * 3600000
      [] OTHER -> 6 * 3600000

\* The number of alerts of id k in the returned list.
CountOf(k) == Cardinality({i \in 1..Len(pack.alerts) : pack.alerts[i].id = k})

\* C1 (cooldown suppression): when the series triggers kind k and the
\* ledger entry of k is younger than the cooldown of k's severity at the
\* invocation (when the engine reads the clock for k), the returned list
\* holds no alert of id k and the returned ledger holds the entry of k
\* unchanged.
CooldownSuppression ==
    Returned =>
        \A k \in Triggered :
            (k \in DOMAIN call.ledger /\ Elapsed(k) < StatedCooldown(k))
                => /\ k \notin AlertIds
                   /\ k \in DOMAIN pack.firedAt
                   /\ pack.firedAt[k] = call.ledger[k]

\* The series triggers move:rare one hour after move:rare last fired.
CooldownSuppressionWitness ==
    /\ Returned
    /\ "move:rare" \in Triggered
    /\ "move:rare" \in DOMAIN call.ledger
    /\ call.nowISO - call.ledger["move:rare"] = HourMs
    /\ "move:rare" \notin AlertIds

\* C2 (re-fire after cooldown): when the series triggers kind k and k is
\* absent from the ledger, or its entry is older than the cooldown of k's
\* severity, the returned list holds exactly one alert of id k, its
\* timestampISO is the invocation instant, and the returned ledger maps k
\* to that instant.
ReFireAfterCooldown ==
    Returned =>
        \A k \in Triggered :
            (k \notin DOMAIN call.ledger \/ Elapsed(k) > StatedCooldown(k))
                => /\ CountOf(k) = 1
                   /\ \A i \in 1..Len(pack.alerts) :
                          pack.alerts[i].id = k
                              => pack.alerts[i].timestampISO = call.nowISO
                   /\ k \in DOMAIN pack.firedAt
                   /\ pack.firedAt[k] = call.nowISO

\* move:rare fires again more than twelve hours after its ledger entry, and
\* the entry moves to the instant of the invocation.
ReFireAfterCooldownWitness ==
    /\ Returned
    /\ "move:rare" \in Triggered
    /\ "move:rare" \in DOMAIN call.ledger
    /\ call.nowISO - call.ledger["move:rare"] > 12 * HourMs
    /\ "move:rare" \in AlertIds
    /\ pack.firedAt["move:rare"] = call.nowISO
    /\ call.nowISO > call.ledger["move:rare"]

\* C3 as stated (cooldown boundary), of the kinds the gate is applied to: an
\* alert kind with a ledger entry is in the returned list only when the time elapsed since the entry strictly
\* exceeds the cooldown window of its severity; at an elapsed time exactly
\* equal to the window it is suppressed and its entry is not overwritten.
CooldownBoundaryStrict ==
    Returned =>
        \A k \in RuleKinds \cap DOMAIN call.ledger :
            /\ k \in AlertIds => Elapsed(k) > StatedCooldown(k)
            /\ (k \in Triggered /\ Elapsed(k) = StatedCooldown(k))
                  => k \notin AlertIds /\ pack.firedAt[k] = call.ledger[k]

\* C3 as amended: a rule's alert kind with a ledger entry is in the returned
\* list only when the time elapsed since the entry is at least the cooldown
\* window of its severity; at an elapsed time exactly equal to the window a
\* triggered kind fires and its entry is overwritten with the invocation
\* instant.
CooldownBoundary ==
    Returned =>
        \A k \in RuleKinds \cap DOMAIN call.ledger :
            /\ k \in AlertIds => Elapsed(k) >= StatedCooldown(k)
            /\ (k \in Triggered /\ Elapsed(k) = StatedCooldown(k))
                  => /\ k \in AlertIds
                     /\ pack.firedAt[k] = call.nowISO

\* A triggered kind whose entry is exactly one cooldown window old: it fires.
CooldownBoundaryWitness ==
    /\ Returned
    /\ \E k \in Triggered \cap DOMAIN call.ledger :
           /\ Elapsed(k) = StatedCooldown(k)
           /\ k \in AlertIds
           /\ pack.firedAt[k] # call.ledger[k]

\* C4 (readiness gate): a pack of fewer than 40 numeric points has status
\* WAITING and a list of exactly one alert, system:waiting_for_history of
\* severity INFO, whatever the prices and the ledger, and no rule is
\* evaluated (no z-score, no series, the ledger returned as given); a pack
\* of 40 or more has status LIVE and the rules are evaluated (a triggered
\* kind that has no ledger entry is in the list).  Every record of a
\* well-formed input is counted.
ReadinessGate ==
    Returned =>
        /\ pack.status = (IF pack.numericPoints < 40 THEN "WAITING" ELSE "LIVE")
        /\ call.input.junk = "none" => pack.numericPoints = call.input.n
        /\ pack.status = "WAITING"
              => /\ Len(pack.alerts) = 1
                 /\ pack.alerts[1].id = "system:waiting_for_history"
                 /\ pack.alerts[1].severity = "INFO"
                 /\ pack.zScore90.null
                 /\ pack.series90 = <<>>
                 /\ pack.firedAt = call.ledger
        /\ pack.status = "LIVE"
              => /\ Len(pack.series90) > 0
                 /\ AlertIds \subseteq RuleKinds \cup {"system:all_clear"}
                 /\ \A k \in Triggered : k \notin DOMAIN call.ledger => k \in AlertIds

\* Thirty-nine days whose last price would trigger the deviation rule, and a
\* ledger that is not empty: the pack is WAITING.
ReadinessGateWitness ==
    /\ Returned
    /\ pack.numericPoints = 39
    /\ call.input.last = Hi
    /\ call.ledger # <<>>
    /\ pack.status = "WAITING"

\* The series of the input is flat: at least 40 identical positive prices.
FlatInput(d) ==
    LET rates == ShapeRates(d.n, d.early, d.spikes, d.last)
    IN  /\ d.junk = "none"
        /\ d.n >= 40
        /\ \A i \in 1..d.n : rates[i] = rates[1] /\ rates[i] > 0

\* C5 (all-clear idempotence): on a flat series of at least 40 identical
\* positive prices every invocation, whatever the ledger it is given (the
\* ledger returned by the invocation before it included), returns exactly
\* one alert, system:all_clear of severity INFO, and does not write the key
\* system:all_clear to the ledger.
AllClearIdempotence ==
    (call.made /\ FlatInput(call.input)) =>
        /\ ~pack.threw
        /\ Len(pack.alerts) = 1
        /\ pack.alerts[1].id = "system:all_clear"
        /\ pack.alerts[1].severity = "INFO"
        /\ "system:all_clear" \in DOMAIN pack.firedAt
              => /\ "system:all_clear" \in DOMAIN call.ledger
                 /\ pack.firedAt["system:all_clear"] = call.ledger["system:all_clear"]

\* A later invocation on a flat series, with the key system:all_clear in the
\* ledger, younger than the INFO window.
AllClearIdempotenceWitness ==
    /\ call.made
    /\ loads >= 2
    /\ FlatInput(call.input)
    /\ "system:all_clear" \in DOMAIN call.ledger
    /\ call.nowISO - call.ledger["system:all_clear"] < 6 * HourMs
    /\ AlertIds = {"system:all_clear"}

\* Every kind the series triggers is withheld by the cooldown gate.
AllWithheld ==
    \A k \in Triggered : k \in DOMAIN call.ledger /\ Elapsed(k) < StatedCooldown(k)

\* C6 (all-clear means no rule triggered): a LIVE pack holds the
\* system:all_clear record only when no rule's condition is met on the
\* series; when a rule's condition is met and its alert is withheld by the
\* cooldown gate, the pack holds no system:all_clear record.
AllClearOnlyWhenQuiet ==
    (Returned /\ pack.status = "LIVE") =>
        /\ "system:all_clear" \in AlertIds => Triggered = {}
        /\ (Triggered # {} /\ AllWithheld) => "system:all_clear" \notin AlertIds

\* C7 (ledger frame): the returned ledger holds every key of the ledger
\* given; an entry is the invocation instant if its kind is a rule's kind of
\* the returned list, and is the entry given otherwise (so the system kinds
\* are never written and no entry is removed); a WAITING pack returns the
\* ledger given.  The caller keeps the returned ledger.
LedgerFrame ==
    Returned =>
        /\ DOMAIN call.ledger \subseteq DOMAIN pack.firedAt
        /\ \A k \in DOMAIN pack.firedAt :
              IF k \in RuleKinds \cap AlertIds
              THEN pack.firedAt[k] = call.nowISO
              ELSE k \in DOMAIN call.ledger /\ pack.firedAt[k] = call.ledger[k]
        /\ pack.status = "WAITING" => pack.firedAt = call.ledger
        /\ firedAt = pack.firedAt

\* One kind fires for the first time while the entry of another kind, not
\* fired now, is kept.
LedgerFrameWitness ==
    /\ Returned
    /\ \E k \in DOMAIN call.ledger : k \notin AlertIds /\ pack.firedAt[k] = call.ledger[k]
    /\ \E j \in (AlertIds \cap RuleKinds) \ DOMAIN call.ledger : pack.firedAt[j] = call.nowISO

\* C8 (the engine never throws): every invocation returns a pack, also on a
\* list with a record whose date is missing or unparseable or whose rate is
\* not numeric; the record is dropped, and an input left with fewer than 40
\* points returns the WAITING pack.
NeverThrows ==
    call.made =>
        /\ ~pack.threw
        /\ pack.status \in {"WAITING", "LIVE"}
        /\ call.input.junk = "badDate" => pack.totalPoints = call.input.n - 1

\* The records of the input whose rate the series may hold: a finite,
\* strictly positive number (as a number, or as the text of one).
GoodRecords(d) ==
    {i \in 1..d.n : i # d.at \/ d.junk \in {"none", "badDate"}}

\* C9 (series invariant): every rate counted in numericPoints and evaluated
\* by the rules is a finite, strictly positive number; a record whose rate
\* does not parse (a text that is no number), or is zero or negative, is
\* dropped and is not counted toward the threshold of 40.
SeriesInvariant ==
    Returned =>
        /\ \A i \in 1..Len(Analysis[call.input].numeric) :
              Analysis[call.input].numeric[i].rate > 0
        /\ \A i \in 1..Len(pack.series90) : pack.series90[i].rate > 0
        /\ pack.numericPoints <= Cardinality(GoodRecords(call.input))

\* The record of the greatest timestamp among the records of a list that
\* have a date and a rate (the first record, if there is none).
LatestOf(points) ==
    With({i \in 1..Len(points) :
             points[i].date.ok /\ ~safeNum(points[i].rate).null},
         LAMBDA rated :
             IF rated = {} THEN points[1]
             ELSE points[CHOOSE i \in rated :
                             \A j \in rated : points[j].date.t <= points[i].date.t])

\* LatestOf over the inputs of the model, evaluated once.
LatestRecord ==
    [d \in {e \in Inputs : e.n > 0} |-> With(PointsOf(d), LatestOf)] @@ <<>>

\* C10 (monotonic ordering): whatever the order of the input list, the
\* points buildAlerts evaluates are in non-decreasing order of timestamp
\* (the first day of the diagnostics is not after the last, the dates of
\* series90 do not decrease), and the latest point, the last of series90,
\* is the record of the greatest timestamp, with its price.
MonotonicOrdering ==
    Returned =>
        /\ pack.fromISO <= pack.toISO
        /\ \A i \in 1..(Len(pack.series90) - 1) :
              pack.series90[i].date <= pack.series90[i + 1].date
        /\ pack.status = "LIVE"
              => LET latest == LatestRecord[call.input]
                 IN  pack.series90[Len(pack.series90)] =
                         [date |-> isoDay(latest.date.t),
                          rate |-> safeNum(latest.rate).v]

\* A list handed over latest day first, the latest price off the rest: the
\* latest point of the pack is the first record of the list.
MonotonicOrderingWitness ==
    /\ Returned
    /\ pack.status = "LIVE"
    /\ call.input.order = "desc"
    /\ call.input.last = Hi
    /\ pack.series90[Len(pack.series90)].rate = Hi
    /\ pack.series90[1].rate = Base

\* The pack of another invocation on the series and the ledger of the
\* invocation made, entered at instant t with clock readings gate.
Again(t, gate) == packOf(Analysis[call.input], call.ledger, t, gate)

\* The ids of the alerts of a pack, in order.
IdsOf(p) == [i \in 1..Len(p.alerts) |-> p.alerts[i].id]

\* The cooldown of every triggered kind of the ledger has elapsed at
\* readings gate exactly if it has at the readings of the invocation made.
SameSide(gate) ==
    \A k \in Triggered \cap DOMAIN call.ledger :
        (gate[RuleOf(k)] - call.ledger[k] >= StatedCooldown(k))
            <=> (Elapsed(k) >= StatedCooldown(k))

CooldownAgesOut ==
    \A k \in RuleKinds :
        /\ []<>(k \in Triggered => ~call.made)
        /\ []<>(k \in Triggered => (Returned /\ k \in AlertIds))

\* An invocation emitted a kind that had an entry in the ledger it was
\* given: the entry had aged out of its cooldown.
CooldownAgesOutWitness ==
    /\ Returned
    /\ \E k \in RuleKinds \cap AlertIds :
          /\ k \in DOMAIN call.ledger
          /\ call.ledger[k] > 0
          /\ call.ledger[k] < Horizon

\* The entries of the ledger given that are younger than their cooldown
\* when the invocation reads the clock for their rule.
Young ==
    {k \in RuleKinds \cap DOMAIN call.ledger : Elapsed(k) < StatedCooldown(k)}

\* C22 (per-tier cooldown independence): an entry of the ledger withholds
\* no kind but its own.  A triggered kind with no entry, or with an entry
\* as old as its cooldown, is emitted whatever the entries of the other
\* kinds, and the invocation returns the alerts it returns on the ledger
\* without the entries of the other kinds: move:rare is emitted while
\* move:watch or move:notable is in its cooldown, vol:jump while
\* vol:rising is.
TierIndependence ==
    (Returned /\ pack.status = "LIVE") =>
        /\ \A k \in Triggered :
              (k \notin DOMAIN call.ledger \/ Elapsed(k) >= StatedCooldown(k))
                  => k \in AlertIds
        /\ IdsOf(pack) =
              IdsOf(packOf(Analysis[call.input],
                           [k \in Triggered \cap DOMAIN call.ledger |-> call.ledger[k]],
                           call.nowISO, call.gate))

\* move:rare is emitted while move:watch or move:notable is in its
\* cooldown.
TierIndependenceWitness ==
    /\ Returned
    /\ "move:rare" \in AlertIds
    /\ Young \cap {"move:watch", "move:notable"} # {}

----------------------------------------------------------------------------
(* Properties of the rules, on an empty ledger                             *)

\* A LIVE invocation on an empty ledger returned.
LiveOnEmpty == Returned /\ pack.status = "LIVE" /\ call.ledger = <<>>

\* The pairs <<id, severity>> of the returned alerts whose id is in kinds.
Emitted(kinds) ==
    {<<pack.alerts[i].id, pack.alerts[i].severity>> :
        i \in {j \in 1..Len(pack.alerts) : pack.alerts[j].id \in kinds}}

\* The number of returned alerts whose id is in kinds.
CountIn(kinds) == Cardinality({i \in 1..Len(pack.alerts) : pack.alerts[i].id \in kinds})

MoveKinds == {"move:rare", "move:notable", "move:watch"}

\* The tier of the reported z = num / sqrt(den2): 4 for |z| >= 3, 3 for
\* 2 <= |z| < 3, 2 for 1.5 <= |z| < 2, 1 below 1.5, 0 for z = null.
TierOfZ ==
    LET z == pack.zScore90
        sq == z.num * z.num
    IN  IF z.null THEN 0
        ELSE IF sq >= 9 * z.den2 THEN 4
        ELSE IF sq >= 4 * z.den2 THEN 3
        ELSE IF 4 * sq >= 9 * z.den2 THEN 2
        ELSE 1

\* C13 (deviation tiers): a LIVE invocation on an empty ledger returns at
\* most one deviation alert: move:rare, CRITICAL, when |z| >= 3;
\* move:notable, ALERT, when 2 <= |z| < 3; move:watch, WATCH, when
\* 1.5 <= |z| < 2; none when |z| < 1.5 or z is null.
DeviationTiers ==
    LiveOnEmpty =>
        /\ CountIn(MoveKinds) <= 1
        /\ Emitted(MoveKinds) =
              CASE TierOfZ = 4 -> {<<"move:rare", "CRITICAL">>}
                [] TierOfZ = 3 -> {<<"move:notable", "ALERT">>}
                [] TierOfZ = 2 -> {<<"move:watch", "WATCH">>}
                [] OTHER -> {}

\* A LIVE invocation on an empty ledger whose |z| is exactly 3.
DeviationTiersWitness ==
    /\ LiveOnEmpty
    /\ ~pack.zScore90.null
    /\ pack.zScore90.num * pack.zScore90.num = 9 * pack.zScore90.den2
    /\ CountIn({"move:rare"}) = 1

VolKinds == {"vol:jump", "vol:rising"}

\* The tier of ratio = vol30 / vol90 of the series of the invocation, a
\* volatility being (sqrt(q) / n) * ln 2 * sqrt(252): 3 for ratio >= 1.6
\* (ratio^2 >= 64 / 25), 2 for 1.3 <= ratio < 1.6 (ratio^2 >= 169 / 100),
\* 1 below 1.3, 0 when a volatility is null.  When vol90 is 0 the code
\* divides by 1e-9: the ratio is 0 if vol30 is 0 and huge otherwise.
TierOfRatio ==
    LET v30 == Analysis[call.input].vol30
        v90 == Analysis[call.input].vol90
        sq30 == v30.q * (v90.n * v90.n)
        sq90 == v90.q * (v30.n * v30.n)
    IN  IF v30.null \/ v90.null THEN 0
        ELSE IF v90.q = 0 THEN (IF v30.q > 0 THEN 3 ELSE 1)
        ELSE IF 25 * sq30 >= 64 * sq90 THEN 3
        ELSE IF 100 * sq30 >= 169 * sq90 THEN 2
        ELSE 1

\* C14 (volatility-jump rule): a LIVE invocation on an empty ledger returns
\* exactly vol:jump, ALERT, when both volatilities are available and
\* vol30 / vol90 >= 1.6; exactly vol:rising, WATCH, when the ratio is in
\* [1.3, 1.6); neither when the ratio is below 1.3 or a volatility is null.
VolatilityTiers ==
    LiveOnEmpty =>
        /\ CountIn(VolKinds) <= 1
        /\ Emitted(VolKinds) =
              CASE TierOfRatio = 3 -> {<<"vol:jump", "ALERT">>}
                [] TierOfRatio = 2 -> {<<"vol:rising", "WATCH">>}
                [] OTHER -> {}

\* A LIVE invocation on an empty ledger and on a series whose volatilities
\* are both available, their ratio at least 1.6: vol:jump is returned.
VolatilityTiersWitness ==
    /\ LiveOnEmpty
    /\ TierOfRatio = 3
    /\ Analysis[call.input].vol90.q > 0
    /\ CountIn({"vol:jump"}) = 1

\* The rates of the 19 points before the latest of the series of the
\* invocation, and the latest rate.
Prior19 ==
    LET numeric == Analysis[call.input].numeric
        n == Len(numeric)
    IN  {numeric[i].rate : i \in {j \in 1..(n - 1) : j >= n - 19}}

LatestRate ==
    LET numeric == Analysis[call.input].numeric
    IN  numeric[Len(numeric)].rate

\* C15 (range-break rule): a LIVE invocation on an empty ledger returns the
\* one alert range:break20, ALERT, exactly when the latest rate is greater
\* than every one of the 19 rates before it or less than every one of them;
\* a latest rate equal to their maximum or minimum, or between the two,
\* returns no range alert.
RangeBreakStrict ==
    LiveOnEmpty =>
        /\ CountIn({"range:break20"}) <= 1
        /\ Emitted({"range:break20"}) =
              IF \/ \A x \in Prior19 : LatestRate > x
                 \/ \A x \in Prior19 : LatestRate < x
              THEN {<<"range:break20", "ALERT">>}
              ELSE {}

\* A LIVE invocation on an empty ledger whose latest rate equals the maximum
\* of the 19 rates before it and is above their minimum: no range alert.
RangeBreakStrictWitness ==
    /\ LiveOnEmpty
    /\ Cardinality(Prior19) > 1
    /\ LatestRate \in Prior19
    /\ \A x \in Prior19 : LatestRate >= x
    /\ CountIn({"range:break20"}) = 0

\* The rates of the trailing min(90, n) points of the series of the
\* invocation.
Trailing90 ==
    LET numeric == Analysis[call.input].numeric
        n == Len(numeric)
    IN  [i \in 1..(IF n < 90 THEN n ELSE 90) |->
            numeric[n - (IF n < 90 THEN n ELSE 90) + i].rate]

\* C17 (z-score definition): the zScore90 a LIVE invocation reports is
\* (latest - mean) / stdev over the trailing min(90, n) rates, stdev being
\* the sample standard deviation (squared deviations summed and divided by
\* n - 1), and it is null exactly when all these rates are equal.  With
\* k the number of rates, S their sum and Q the sum of their squares,
\* latest - mean = (k * latest - S) / k and stdev^2 = (k * Q - S^2) /
\* (k * (k - 1)), so that z^2 = (k * latest - S)^2 * (k - 1) /
\* (k * (k * Q - S^2)); the reported z is num / sqrt(den2).
ZScoreBessel ==
    (Returned /\ pack.status = "LIVE") =>
        LET z == pack.zScore90
            k == Len(Trailing90)
            S == Sum(Trailing90)
            Q == Sum(Squares(Trailing90))
            dev == k * Trailing90[k] - S
        IN  /\ z.null <=> (\A i \in 1..k : Trailing90[i] = Trailing90[1])
            /\ ~z.null =>
                  /\ (z.num > 0) <=> (dev > 0)
                  /\ (z.num < 0) <=> (dev < 0)
                  /\ Lowest(z.num * z.num, z.den2)
                        = Lowest(dev * dev * (k - 1), k * (k * Q - S * S))

\* The series of the invocation has at least 40 points, all but the last
\* at one positive rate and the last one higher.
SingleJump ==
    LET numeric == Analysis[call.input].numeric
        n == Len(numeric)
    IN  /\ ~Analysis[call.input].threw
        /\ Analysis[call.input].totalPoints = n
        /\ n >= 40
        /\ numeric[1].rate > 0
        /\ \A i \in 1..(n - 1) : numeric[i].rate = numeric[1].rate
        /\ numeric[n].rate > numeric[1].rate

\* C19 (single jump): on a series of at least 40 points, all but the last
\* at one positive rate and the last one higher, an invocation with an
\* empty ledger reports a positive zScore90 of at least 2 and returns one
\* deviation alert, of severity ALERT or CRITICAL, whose meta holds
\* zScore90.
SingleJumpAlert ==
    (Returned /\ call.ledger = <<>> /\ SingleJump) =>
        /\ pack.status = "LIVE"
        /\ ~pack.zScore90.null
        /\ pack.zScore90.num > 0
        /\ pack.zScore90.num * pack.zScore90.num >= 4 * pack.zScore90.den2
        /\ CountIn(MoveKinds) = 1
        /\ \A i \in 1..Len(pack.alerts) :
              pack.alerts[i].id \in MoveKinds
                  => /\ pack.alerts[i].severity \in {"ALERT", "CRITICAL"}
                     /\ "zScore90" \in pack.alerts[i].meta

\* The invocation on 89 points at one rate and a 90th above it, with an
\* empty ledger, returned a deviation alert.
SingleJumpAlertWitness ==
    /\ Returned
    /\ call.ledger = <<>>
    /\ SingleJump
    /\ Len(Analysis[call.input].numeric) = 90
    /\ CountIn(MoveKinds) = 1

----------------------------------------------------------------------------
(* Properties of the alerts page                                           *)

\* The ids of the alerts tab i shows.
ShownBy(i) == {tabs[i].alerts[j].id : j \in 1..Len(tabs[i].alerts)}

\* C12 (cooldown survives a page refresh): when a load of the page is done,
\* the ledger it passed to buildAlerts is the map it found stored under
\* pesopilot_alerts_firedAt, no kind with a stored entry younger than its
\* cooldown is among the alerts it shows, and the kinds stored before the
\* load are still stored after it.
CooldownSurvivesRefresh ==
    \A i \in Tabs :
        tabs[i].phase = "shown" =>
            /\ tabs[i].captured = tabs[i].read
            /\ \A k \in RuleKinds \cap DOMAIN tabs[i].read :
                  tabs[i].at - tabs[i].read[k] < StatedCooldown(k) => k \notin ShownBy(i)
            /\ DOMAIN tabs[i].read \subseteq DOMAIN tabs[i].stored

\* The load of tab i was over (its result stored) before tab j read the
\* stored map: the two read-evaluate-write sequences are serialized.
Serialized(i, j) ==
    /\ tabs[i].phase = "shown"
    /\ tabs[j].phase = "shown"
    /\ tabs[i].ended < tabs[j].began

\* C20 (shared-ledger race), the serialized half: of two loads that share
\* the stored ledger and whose read-evaluate-write sequences are serialized,
\* the second does not emit a kind the first emitted less than the cooldown
\* of the kind before it: a kind is emitted at most once per cooldown window.
SerializedFiresOnce ==
    \A i \in Tabs : \A j \in Tabs \ {i} :
        Serialized(i, j) =>
            \A k \in RuleKinds \cap ShownBy(i) :
                tabs[j].at - tabs[i].at < StatedCooldown(k) => k \notin ShownBy(j)

----------------------------------------------------------------------------
(* Properties of the classifiers and of the risk metrics                   *)

\* The regime a label of the badge stands for.
RegimeOfLabel(label) ==
    CASE label = "Low Vol" -> "LOW"
      [] label = "Normal Vol" -> "NORMAL"
      [] label = "High Vol" -> "HIGH"
      [] OTHER -> "none"

\* The regime the thresholds give a percentage: LOW below 8, HIGH above 15,
\* NORMAL from 8 to 15, both included.
StatedRegime(pct) ==
    IF pct < 8 * 100000 THEN "LOW"
    ELSE IF pct > 15 * 100000 THEN "HIGH"
    ELSE "NORMAL"

\* The volatility the badge classified.
BadgeVol == IF calc.preset \in {"7D", "30D"} THEN calc.vol30 ELSE calc.vol90

\* C16 (regime boundary exactness): the risk report and the badge of the
\* dashboard both give a volatility of v percent LOW iff v < 8, NORMAL iff
\* 8 <= v <= 15 and HIGH iff v > 15, so that 8 and 15 are NORMAL, and the
\* badge gives every volatility the regime classifyRegime gives it.
RegimeBoundaryExactness ==
    /\ (calc.op = "classifyRegime" /\ ~calc.vol30.null)
           => calc.regime = StatedRegime(calc.vol30.v)
    /\ (calc.op = "volRegime" /\ ~BadgeVol.null)
           => /\ RegimeOfLabel(calc.regime) = StatedRegime(PctOf(BadgeVol.v))
              /\ RegimeOfLabel(calc.regime) = classifyRegime(PctOf(BadgeVol.v))

\* The places of the finite rates among the chart points of the computation.
FiniteAt == {i \in 1..Len(calc.points) : calc.points[i].fin}

\* The running peak at place i: the greatest finite rate up to it.
PeakAt(i) ==
    CHOOSE m \in {calc.points[j].v : j \in {h \in FiniteAt : h <= i}} :
        \A j \in {h \in FiniteAt : h <= i} : calc.points[j].v <= m

\* C18 (drawdown sign): the maxDrawdown of computeFxRiskMetrics is null
\* exactly when fewer than 2 of the rates are finite; otherwise it is at
\* most 0, it is 0 when the finite rates never decrease, and, the running
\* peak being positive, it is the lowest of the values
\* (rate - running peak) / running peak over the finite rates.
DrawdownSign ==
    calc.op = "computeFxRiskMetrics" =>
        LET dd == calc.metrics.maxDrawdown
        IN  /\ dd.null <=> Cardinality(FiniteAt) < 2
            /\ ~dd.null =>
                  /\ dd.den > 0
                  /\ dd.num <= 0
                  /\ (\A i \in FiniteAt : \A j \in FiniteAt :
                         i < j => calc.points[i].v <= calc.points[j].v)
                        => dd.num = 0
                  /\ (\A i \in FiniteAt : PeakAt(i) > 0)
                        => /\ \A i \in FiniteAt :
                                dd.num * PeakAt(i)
                                    <= (calc.points[i].v - PeakAt(i)) * dd.den
                           /\ \E i \in FiniteAt :
                                dd.num * PeakAt(i)
                                    = (calc.points[i].v - PeakAt(i)) * dd.den

\* Metrics of chart points with a rate that is not finite among them, whose
\* lowest drawdown is below 0 and is measured from a peak reached after the
\* first rate.
DrawdownSignWitness ==
    /\ calc.op = "computeFxRiskMetrics"
    /\ ~calc.metrics.maxDrawdown.null
    /\ calc.metrics.maxDrawdown.num < 0
    /\ \E i \in 1..Len(calc.points) : ~calc.points[i].fin
    /\ \A i \in FiniteAt : PeakAt(i) > 0
    /\ calc.metrics.maxDrawdown.den > PeakAt(CHOOSE i \in FiniteAt : \A j \in FiniteAt : i <= j)

\* C23 (not computable is not zero): when the 30-day volatility of the
\* risk report is null, the report gives the period no regime (not LOW in
\* particular) and no risk score: the null is carried through, apart from a
\* volatility computed as 0.
NullVolatilityCarried ==
    (calc.op = "classifyRegime" /\ calc.vol30.null) =>
        /\ calc.display = "N/A"
        /\ calc.regime \notin {"LOW", "NORMAL", "HIGH"}
        /\ calc.riskScore # riskScoreOf(Some(0))

\* The rolling volatility of the path that computed calc.vol.
VolBy(op, rates, window) ==
    IF op = "rollingVolAnnualized" THEN rollingVolAnnualized(rates, window)
    ELSE rollingAnnualizedVol(rates, window)

\* The pairs of adjacent prices, both above 0, among the last window + 1
\* prices (a pair is named by the place of its second price).
ValidTailPairs ==
    {i \in 2..Len(calc.rates) :
        /\ i - 1 >= Len(calc.rates) - calc.window
        /\ calc.rates[i - 1] > 0
        /\ calc.rates[i] > 0}

\* C24 (strict rolling volatility): the rolling volatility of window W of
\* the alerts engine and of the risk report is null exactly when fewer than
\* W + 1 prices are supplied or fewer than max(10, W - 2) of the adjacent
\* pairs among the last W + 1 prices have both prices above 0; otherwise it
\* is not negative and is computed from the last W + 1 prices only: it is
\* the volatility of these prices alone.
StrictRollingVol ==
    calc.op \in {"rollingVolAnnualized", "rollingAnnualizedVol"} =>
        /\ calc.vol.null <=>
              \/ Len(calc.rates) < calc.window + 1
              \/ Cardinality(ValidTailPairs) < Max(10, calc.window - 2)
        /\ ~calc.vol.null =>
              /\ calc.vol.q >= 0
              /\ calc.vol = VolBy(calc.op, Last(calc.rates, calc.window + 1), calc.window)

\* The places of the finite rates that follow a finite rate other than 0
\* (the finite rate before them, the rates that are not finite left out):
\* each is the second rate of a valid return.
ReturnAt ==
    {i \in FiniteAt :
        \E h \in FiniteAt :
            /\ h < i
            /\ \A j \in FiniteAt : ~(h < j /\ j < i)
            /\ calc.points[h].v # 0}

\* C25 (lenient volatility of the metrics card): vol30Ann and vol90Ann of
\* computeFxRiskMetrics are null exactly when fewer than 10 valid returns
\* exist; otherwise each is a number, not negative, of the last
\* min(W, returnsCount) returns, W = 30 or 90, fewer than W returns being
\* enough; so the two are equal when at most 30 returns exist.
LenientVol ==
    calc.op = "computeFxRiskMetrics" =>
        LET m == calc.metrics
            count == Cardinality(ReturnAt)
        IN  /\ m.returnsCount = count
            /\ m.vol30Ann.null <=> count < 10
            /\ m.vol90Ann.null <=> count < 10
            /\ count >= 10 =>
                  /\ m.vol30Ann.n = (IF count < 30 THEN count ELSE 30)
                  /\ m.vol90Ann.n = (IF count < 90 THEN count ELSE 90)
                  /\ m.vol30Ann.q >= 0
                  /\ m.vol90Ann.q >= 0
            /\ count <= 30 => m.vol30Ann = m.vol90Ann

\* Metrics of a history with 10 to 29 valid returns, not all equal: the two
\* volatilities are numbers, and equal.
LenientVolWitness ==
    /\ calc.op = "computeFxRiskMetrics"
    /\ Cardinality(ReturnAt) >= 10
    /\ Cardinality(ReturnAt) < 30
    /\ Cardinality(ReturnAt) < Len(calc.points) - 1
    /\ ~calc.metrics.vol30Ann.null
    /\ calc.metrics.vol30Ann.q > 0
    /\ calc.metrics.vol30Ann = calc.metrics.vol90Ann

\* The sign flips of the day-over-day deltas of the classified rates, the
\* deltas of 0 ignored: the pairs of days i < j whose deltas are not 0 and
\* of opposite sign, every delta between them being 0.
SignFlips ==
    LET r == calc.rates
        Delta(i) == r[i + 1] - r[i]
    IN  {<<i, j>> \in (1..(Len(r) - 1)) \X (1..(Len(r) - 1)) :
            /\ i < j
            /\ (Delta(i) > 0 /\ Delta(j) < 0) \/ (Delta(i) < 0 /\ Delta(j) > 0)
            /\ \A h \in (i + 1)..(j - 1) : Delta(h) = 0}

\* The label the stated order of tests gives to the net move, the range
\* and the reversals of the classified rates.
StatedBehavior ==
    LET days == Len(calc.rates) - 1
        net == calc.fx.netMovePct
        range == calc.fx.rangePct
    IN  CASE BelowScaled(net, 4, days) /\ BelowScaled(range, 7, days) -> "RANGE_BOUND"
          [] ~(BelowScaled(net, 4, days) /\ BelowScaled(range, 7, days))
                /\ BelowScaled(net, 8, days) /\ ~BelowScaled(range, 7, days) -> "CHOPPY"
          [] ~(BelowScaled(net, 4, days) /\ BelowScaled(range, 7, days))
                /\ ~(BelowScaled(net, 8, days) /\ ~BelowScaled(range, 7, days))
                /\ ~BelowScaled(net, 9, days) -> "DIRECTIONAL_WITH_SWINGS"
          [] OTHER -> IF Cardinality(SignFlips) >= Max(2, days \div 4)
                      THEN "CHOPPY" ELSE "DIRECTIONAL_WITH_SWINGS"

\* C26 (the behaviour classifier is total and ordered): for every period of
\* at least 3 prices classifyFxBehavior returns exactly one of RANGE_BOUND,
\* CHOPPY and DIRECTIONAL_WITH_SWINGS, the first match of: net < 0.4 s and
\* range < 0.7 s, RANGE_BOUND; net < 0.8 s and range >= 0.7 s, CHOPPY;
\* net >= 0.9 s, DIRECTIONAL_WITH_SWINGS; else CHOPPY exactly when
\* reversals >= max(2, floor(days / 4)); s is sqrt(days / 7) and reversals
\* the sign flips of the deltas, deltas of 0 ignored.  For fewer than 3
\* prices the label is null.
BehaviorTotalOrdered ==
    calc.op = "classifyFxBehavior" =>
        IF Len(calc.rates) < 3 THEN calc.fx.behavior = "null"
        ELSE /\ calc.fx.behavior \in {"RANGE_BOUND", "CHOPPY", "DIRECTIONAL_WITH_SWINGS"}
             /\ calc.fx.reversals = Cardinality(SignFlips)
             /\ calc.fx.behavior = StatedBehavior

\* A period left to the reversals, with a delta of 0 between two moves of
\* opposite sign, labelled CHOPPY.
BehaviorTotalOrderedWitness ==
    /\ calc.op = "classifyFxBehavior"
    /\ Len(calc.rates) >= 3
    /\ LET days == Len(calc.rates) - 1
       IN  /\ ~BelowScaled(calc.fx.netMovePct, 4, days)
           /\ BelowScaled(calc.fx.rangePct, 7, days)
           /\ BelowScaled(calc.fx.netMovePct, 9, days)
           /\ calc.fx.reversals = Max(2, days \div 4)
    /\ \E p \in SignFlips : p[2] > p[1] + 1
    /\ calc.fx.behavior = "CHOPPY"

\* C27 (shape of the alert list): every AlertPack buildAlerts returns has
\* an alert list that is not empty and in which no id occurs twice; at most
\* one of move:rare, move:notable, move:watch and at most one of vol:jump,
\* vol:rising is in it; system:all_clear is in it only as its only alert;
\* and all its alerts carry the same timestampISO.
AlertListShape ==
    Returned =>
        /\ Len(pack.alerts) >= 1
        /\ \A i, j \in 1..Len(pack.alerts) :
              /\ pack.alerts[i].id = pack.alerts[j].id => i = j
              /\ pack.alerts[i].timestampISO = pack.alerts[j].timestampISO
        /\ CountIn(MoveKinds) <= 1
        /\ CountIn(VolKinds) <= 1
        /\ "system:all_clear" \in AlertIds <=> pack.alerts = <<SystemAlert("system:all_clear", call.nowISO)>>
        /\ "system:all_clear" \in AlertIds => Len(pack.alerts) = 1

\* Three rules fired at once, on a ledger that holds an earlier firing of
\* the all-clear: a list of three alerts.
AlertListShapeWitness ==
    /\ Returned
    /\ pack.status = "LIVE"
    /\ "system:all_clear" \in DOMAIN call.ledger
    /\ Len(pack.alerts) = 3
    /\ CountIn(MoveKinds) = 1
    /\ CountIn(VolKinds) = 1

----------------------------------------------------------------------------
(* Properties of the import                                                *)

\* The fetch of the request failed: its last attempt was rejected.
FetchFailed == Len(job.log) > 0 /\ job.log[Len(job.log)] # "ok"

\* What holds of the attempts of a request at every instant.
RetryShape ==
    /\ Len(job.log) <= 4
    /\ \A i \in 1..(Len(job.log) - 1) : job.log[i] # "ok"
    /\ Len(job.waits) = Cardinality({i \in 1..Len(job.log) : job.log[i] # "ok"})
    /\ \A i \in 1..Len(job.waits) : job.waits[i] = <<500, 1000, 2000, 4000>>[i]
    /\ (job.phase = "fetching") => Len(job.log) < 4
    /\ (job.phase = "done" /\ FetchFailed) =>
          /\ Len(job.log) = 4
          /\ job.status = 500
          /\ job.error = job.log[4]
          /\ job.rows = job.prior
          /\ job.written = {}

\* C28 (bounded retry of the import): fetchBspHtmlWithRetry makes at most
\* 4 attempts, none after the first that succeeds, waits 500 * 2^(attempt
\* - 1) ms after each that fails, and after the 4th failure throws the last
\* error; it ends on every sequence of outcomes, and when the fetch failed
\* the route answers 500 and no row is written.
BoundedRetry ==
    /\ []RetryShape
    /\ (job.phase = "fetching") ~> (job.phase \in {"parsing", "done"})
    /\ (job.phase = "fetching") ~> (job.phase = "done")

\* Four attempts failed, the last with another error than the first, on a
\* store that holds a row: the answer is 500.
BoundedRetryWitness ==
    /\ job.phase = "done"
    /\ Len(job.log) = 4
    /\ FetchFailed
    /\ job.log[1] # job.log[4]
    /\ job.status = 500
    /\ Len(job.rows) > 0

\* The rows of a store, their order left out.
RowSet(rows) == {rows[k] : k \in 1..Len(rows)}

====
